---- MODULE Spec2Model ----
(***************************************************************************)
(* The Onkyo integration: the connection session                           *)
(* (custom_components/onkyo/connection.py) as the zone entities of         *)
(* custom_components/onkyo/media_player.py use it (Spec), the volume       *)
(* scaler (SpecVolume), the polling coordinator of                         *)
(* custom_components/onkyo/coordinator.py (SpecPoll) and one zone entity   *)
(* (SpecEntity).                                                           *)
(*                                                                         *)
(* Every zone entity constructs its own OnkyoConnectionManager around the  *)
(* receiver object it is given (media_player.py:185), so a session, its    *)
(* lock and its flags exist once per zone.                                 *)
(*                                                                         *)
(* Time is counted in ticks of 50 ms.                                      *)
(*                                                                         *)
(* A coroutine runs without interruption between two awaits; the actions   *)
(* below cut async_send_command into smaller steps than that, which only   *)
(* adds interleavings.                                                     *)
(***************************************************************************)
EXTENDS Integers, Sequences, FiniteSets, TLC

\* ---------------------------------------------------------------- bounds
\* Ticks of the event-loop clock the model explores.
MaxTime == 3

\* ------------------------------------------------------ program constants
\* COMMAND_DELAY = 0.15 s (connection.py:19), in ticks of 50 ms.
COMMAND_DELAY == 3

\* ------------------------------------------------------------- the cast
\* The zone entities of one receiver; each owns one session.
Zones == {"main", "zone2"}

\* The coroutines that call async_send_command: the periodic poll of each
\* entity (async_update) and a user command on the main zone.
Tasks == {"poll_main", "user_main", "poll_zone2"}

\* self._conn_manager of the entity a task runs in.
Manager(t) == IF t = "poll_zone2" THEN "zone2" ELSE "main"

\* An instance attribute no assignment has created yet: reading it raises
\* AttributeError.
Undefined == "undefined"

NoTask == "none"

\* What the network does to a command sent to the receiver.
ReceiverConditions == {"ok", "timeout", "refused", "oserror"}
NetworkFailures == {"timeout", "refused", "oserror"}

VARIABLES
    now,                \* hass.loop.time(), in ticks
    receiver,           \* the condition of the receiver and the network
    _is_connected,      \* per session
    _is_connecting,     \* per session: Undefined, TRUE or FALSE
    _last_command_time, \* per session
    _reconnect_attempt, \* per session
    lockHolder,         \* per session: the task inside "async with self._lock"
    lockWaiters,        \* per session: the tasks queued on the lock, in order
    closed,             \* per session: async_close has been called
    failed,             \* per session: some async_send_command returned None
    pc,                 \* per task: its position in async_send_command
    wakeAt,             \* per task: the deadline of the sleep it is in
    result,             \* per task: what its call returned
    during,             \* per task: the receiver's condition over the call
    priorFailure        \* per task: a send had failed when the call began

\* The volume scaler (media_player.py:650-696, __init__.py:475-513). A
\* Home Assistant volume is held in hundredths (77 is 0.77); a normalized
\* result is held as the fraction <<numerator, denominator>>.
VARIABLES
    max_volume,         \* entry option "max_volume", percent
    volume_resolution,  \* entry option "volume_resolution", device steps
    given,              \* which input the scaler was handed
    ha_volume,          \* the volume to set, in hundredths
    receiver_volume,    \* a device value: computed, or reported by the receiver
    ha_result,          \* the normalized volume computed from receiver_volume
    applied             \* the scaler functions applied so far, in order

volVars == <<max_volume, volume_resolution, given, ha_volume, receiver_volume,
             ha_result, applied>>

\* The polling coordinator (onkyo/coordinator.py), constructed by the
\* package's async_setup_entry (custom_components/__init__.py:41).
VARIABLES
    hdmi_out_supported,   \* constructor argument, default True
    audio_info_supported, \* constructor argument, default True
    video_info_supported, \* constructor argument, default True
    receiver_max_volume,  \* entry option "receiver_max_volume"
    replies,              \* what receiver.command returns, per query
    raisesOn,             \* the command on which receiver.command raises
    zonesFound,           \* what _determine_zones does
    pollPc,               \* the position of _async_update_data
    issued,               \* the commands issued in this cycle, in order
    data,                 \* the local "data" of _async_update_data
    returned              \* what _async_update_data returned

pollVars == <<hdmi_out_supported, audio_info_supported, video_info_supported,
              receiver_max_volume, replies, raisesOn, zonesFound, pollPc,
              issued, data, returned>>

\* One zone entity, OnkyoMediaPlayer (onkyo/media_player.py), and the
\* receiver it talks to.
VARIABLES
    added,                  \* the entity has been added to Home Assistant
    _zone,
    _attr_state,
    _attr_available,
    _attr_volume_level,     \* a fraction, or NoResult for None
    _attr_is_volume_muted,
    _attr_source,
    _attr_source_list,
    _listening_modes,
    _attr_extra_state_attributes,   \* a dict, as its set of items
    playing,                \* the media type and preset of the
                            \* async_play_media that sleeps, or <<>>
    power_reported,         \* the last power poll or power push gave
                            \* "on" or "standby"
    device,                 \* the receiver's own power state and volume
    sent,                   \* the commands the last operation handed to
                            \* async_send_command, in order
    lastOp                  \* the last operation and how it ended

attrVars == <<_attr_state, _attr_available, _attr_volume_level,
              _attr_is_volume_muted, _attr_source, _attr_source_list,
              _listening_modes>>

entVars == <<added, _zone, attrVars, _attr_extra_state_attributes, playing,
             power_reported, device, sent, lastOp>>

\* The helpers of helpers.py: the command table of the eiscp library,
\* the arguments of a call, the function called and what it returned.
VARIABLES
    COMMANDS,
    selected_sources,
    selected_sounds,
    helper,
    helper_result

helperVars == <<COMMANDS, selected_sources, selected_sounds, helper,
                helper_result>>

\* The options flow of config_flow.py: the entry's saved options, whether
\* the form is on screen, the last submission and how the flow answered.
VARIABLES
    entry_options,
    form_shown,
    user_input,
    flow_result

flowVars == <<entry_options, form_shown, user_input, flow_result>>

\* The life of config entries: the entries the config flow created,
\* hass.data (a dict as its set of items), the entries Home Assistant
\* holds as loaded, the entities the platform added, and the last call
\* with how it ended (a setup that succeeded also holds what the two zone
\* queries did and the list of zones detected).
VARIABLES
    config_entries,
    hass_data,
    loaded,
    entities,
    call

hassVars == <<config_entries, hass_data, loaded, entities, call>>

\* async_migrate_entry (onkyo/__init__.py): the config entry handed to it
\* (version and data, a dict as its set of items), the entry as the config
\* flow of some release stored it, the number of migrations run on it and
\* what the last one returned.
VARIABLES
    stored_entry,
    config_entry,
    migrations,
    migrate_result

migrateVars == <<stored_entry, config_entry, migrations, migrate_result>>

\* The state of the integration around the entity and the coordinator.
integrationVars == <<helperVars, flowVars, hassVars, migrateVars>>

\* The state of the components other than the connection session.
componentVars == <<volVars, pollVars, entVars, integrationVars>>

vars == <<now, receiver, _is_connected, _is_connecting, _last_command_time,
          _reconnect_attempt, lockHolder, lockWaiters, closed, failed,
          pc, wakeAt, result, during, priorFailure, componentVars>>

sessionVars == <<_is_connected, _is_connecting, _last_command_time,
                 _reconnect_attempt>>
lockVars == <<lockHolder, lockWaiters>>
ghostVars == <<during, priorFailure>>

InCall(t) == pc[t] \notin {"idle", "returned"}

\* ------------------------------------------------------------------ Init
\* OnkyoConnectionManager.__init__ assigns _lock, _last_command_time,
\* _reconnect_attempt and _is_connected; it does not assign _is_connecting.
SessionInit ==
    /\ now = 0
    /\ receiver \in ReceiverConditions
    /\ _is_connected = [z \in Zones |-> FALSE]
    /\ _is_connecting = [z \in Zones |-> Undefined]
    /\ _last_command_time = [z \in Zones |-> 0]
    /\ _reconnect_attempt = [z \in Zones |-> 0]
    /\ lockHolder = [z \in Zones |-> NoTask]
    /\ lockWaiters = [z \in Zones |-> <<>>]
    /\ closed = [z \in Zones |-> FALSE]
    /\ failed = [z \in Zones |-> FALSE]
    /\ pc = [t \in Tasks |-> "idle"]
    /\ wakeAt = [t \in Tasks |-> 0]
    /\ result = [t \in Tasks |-> "pending"]
    /\ during = [t \in Tasks |-> "ok"]
    /\ priorFailure = [t \in Tasks |-> FALSE]

\* No value: None in the code.
None == "None"

\* A fraction not yet computed.
NoResult == <<>>

\* The scaler at rest: configured with the defaults (DEFAULT_MAX_VOLUME and
\* DEFAULT_VOLUME_RESOLUTION of onkyo/const.py), nothing asked of it.
VolumeIdle ==
    /\ max_volume = 100
    /\ volume_resolution = 80
    /\ given = None
    /\ ha_volume = 0
    /\ receiver_volume = 0
    /\ ha_result = NoResult
    /\ applied = <<>>

\* A reply of receiver.command: False (the command is not supported), or
\* the pair (name, value) whose value is an int, a string, held as its
\* comma-separated parts, or a tuple of names.
NoReply == [kind |-> "False"]
IntReply(v) == [kind |-> "int", value |-> v]
StrReply(parts) == [kind |-> "str", value |-> parts]
TupleReply(names) == [kind |-> "tuple", value |-> names]

\* "if reply:" in Python.
Truthy(r) == r.kind # "False"

\* The coordinator before its first refresh; DEFAULT_RECEIVER_MAX_VOLUME of
\* custom_components/const.py.
PollIdle ==
    /\ hdmi_out_supported = TRUE
    /\ audio_info_supported = TRUE
    /\ video_info_supported = TRUE
    /\ receiver_max_volume = 80
    /\ replies = [q \in {} |-> NoReply]
    /\ raisesOn = None
    /\ zonesFound = None
    /\ pollPc = "unscheduled"
    /\ issued = <<>>
    /\ data = <<>>
    /\ returned = <<>>

\* OnkyoMediaPlayer.__init__, lines 170-211.
Constructed ==
    /\ _attr_state = "off"
    /\ _attr_available = FALSE
    /\ _attr_volume_level = NoResult
    /\ _attr_is_volume_muted = FALSE
    /\ _attr_source = None
    /\ _attr_source_list = <<>>
    /\ _listening_modes = <<>>
    /\ _attr_extra_state_attributes = {}
    /\ playing = <<>>
    /\ power_reported = FALSE

\* The entity constructed and not added to Home Assistant: none of its
\* methods is called.
EntityIdle ==
    /\ added = FALSE
    /\ _zone = "main"
    /\ Constructed
    /\ device = [power |-> "standby", volume |-> 0]
    /\ sent = <<>>
    /\ lastOp = [name |-> None, raised |-> FALSE]

\* No helper is called.
HelperIdle ==
    /\ COMMANDS = [SLI |-> <<>>, LMD |-> <<>>]
    /\ selected_sources = [given |-> FALSE, list |-> <<>>]
    /\ selected_sounds = [given |-> FALSE, list |-> <<>>]
    /\ helper = "None"
    /\ helper_result = {}

\* Volume options as a record of the three settings of the form.
VolumeOptions(receiver_max, resolution, percent) ==
    [receiver_max_volume |-> receiver_max, volume_resolution |-> resolution,
     max_volume |-> percent]

\* No options flow is open.
FlowIdle ==
    /\ entry_options = VolumeOptions(80, 80, 100)
    /\ form_shown = FALSE
    /\ user_input = VolumeOptions(80, 80, 100)
    /\ flow_result = [type |-> "None", errors |-> {}]

\* Home Assistant with no entry of the integration.
HassIdle ==
    /\ config_entries = {}
    /\ hass_data = {}
    /\ loaded = {}
    /\ entities = {}
    /\ call = [op |-> "None", entry |-> "None", condition |-> "None",
               returned |-> "None", disconnected |-> FALSE]

\* No entry is being migrated.
MigrateIdle ==
    /\ stored_entry = [version |-> 2, data |-> {}]
    /\ config_entry = stored_entry
    /\ migrations = 0
    /\ migrate_result = "None"

IntegrationIdle == HelperIdle /\ FlowIdle /\ HassIdle /\ MigrateIdle

Init ==
    /\ IntegrationIdle
    /\ SessionInit
    /\ VolumeIdle
    /\ PollIdle
    /\ EntityIdle

\* ----------------------------------------------------------- environment
\* The event-loop clock advances.
Tick ==
    /\ now < MaxTime
    /\ now' = now + 1
    /\ UNCHANGED <<receiver, sessionVars, lockVars, closed, failed, pc,
                   wakeAt, result, ghostVars>>
    /\ UNCHANGED componentVars

\* The receiver or the network changes condition; a call in progress has
\* then seen more than one condition.
ReceiverChange ==
    /\ \E c \in ReceiverConditions \ {receiver} : receiver' = c
    /\ during' = [t \in Tasks |-> IF InCall(t) THEN "mixed" ELSE during[t]]
    /\ UNCHANGED <<now, sessionVars, lockVars, closed, failed, pc, wakeAt,
                   result, priorFailure>>
    /\ UNCHANGED componentVars

\* -------------------------------------------------- async_send_command
\* An entity method awaits self._conn_manager.async_send_command(...).
Call(t) ==
    /\ pc[t] \in {"idle", "returned"}
    /\ pc' = [pc EXCEPT ![t] = "acquire"]
    /\ result' = [result EXCEPT ![t] = "pending"]
    /\ during' = [during EXCEPT ![t] = receiver]
    /\ priorFailure' = [priorFailure EXCEPT ![t] = failed[Manager(t)]]
    /\ UNCHANGED <<now, receiver, sessionVars, lockVars, closed, failed,
                   wakeAt>>
    /\ UNCHANGED componentVars

\* "async with self._lock": asyncio.Lock.acquire takes a free lock that has
\* no waiter, and queues the caller otherwise.
AcquireLock(t) ==
    LET z == Manager(t) IN
    /\ pc[t] = "acquire"
    /\ IF lockHolder[z] = NoTask /\ lockWaiters[z] = <<>>
       THEN /\ lockHolder' = [lockHolder EXCEPT ![z] = t]
            /\ pc' = [pc EXCEPT ![t] = "rate_limit"]
            /\ UNCHANGED lockWaiters
       ELSE /\ lockWaiters' = [lockWaiters EXCEPT ![z] = Append(@, t)]
            /\ pc' = [pc EXCEPT ![t] = "wait_lock"]
            /\ UNCHANGED lockHolder
    /\ UNCHANGED <<now, receiver, sessionVars, closed, failed, wakeAt,
                   result, ghostVars>>
    /\ UNCHANGED componentVars

\* asyncio.Lock.release wakes the first waiter, which then owns the lock.
LockGranted(t) ==
    LET z == Manager(t) IN
    /\ pc[t] = "wait_lock"
    /\ lockHolder[z] = NoTask
    /\ lockWaiters[z] # <<>>
    /\ Head(lockWaiters[z]) = t
    /\ lockHolder' = [lockHolder EXCEPT ![z] = t]
    /\ lockWaiters' = [lockWaiters EXCEPT ![z] = Tail(@)]
    /\ pc' = [pc EXCEPT ![t] = "rate_limit"]
    /\ UNCHANGED <<now, receiver, sessionVars, closed, failed, wakeAt,
                   result, ghostVars>>
    /\ UNCHANGED componentVars

\* _rate_limit: the time still to wait before the next command.
RateLimitSleep(z) ==
    LET elapsed == now - _last_command_time[z] IN
    IF elapsed < COMMAND_DELAY THEN COMMAND_DELAY - elapsed ELSE 0

\* "await self._rate_limit()".
RateLimit(t) ==
    LET z == Manager(t) IN
    /\ pc[t] = "rate_limit"
    /\ IF RateLimitSleep(z) > 0
       THEN /\ pc' = [pc EXCEPT ![t] = "rate_sleep"]
            /\ wakeAt' = [wakeAt EXCEPT ![t] = now + RateLimitSleep(z)]
       ELSE /\ pc' = [pc EXCEPT ![t] = "check"]
            /\ UNCHANGED wakeAt
    /\ UNCHANGED <<now, receiver, sessionVars, lockVars, closed, failed,
                   result, ghostVars>>
    /\ UNCHANGED componentVars

\* asyncio.sleep returns once its deadline has passed.
RateLimitWake(t) ==
    /\ pc[t] = "rate_sleep"
    /\ now >= wakeAt[t]
    /\ pc' = [pc EXCEPT ![t] = "check"]
    /\ wakeAt' = [wakeAt EXCEPT ![t] = 0]
    /\ UNCHANGED <<now, receiver, sessionVars, lockVars, closed, failed,
                   result, ghostVars>>
    /\ UNCHANGED componentVars

\* The conditions of lines 44 and 48, evaluated left to right:
\* "not self._is_connected and not self._is_connecting" reads
\* _is_connecting whenever _is_connected is false, and the read of an
\* attribute that was never assigned raises AttributeError.
ConnectionCheck(z) ==
    IF ~_is_connected[z]
    THEN IF _is_connecting[z] = Undefined THEN "raise_AttributeError"
         ELSE IF _is_connecting[z] = FALSE THEN "reconnect"
         ELSE "not_connected"
    ELSE "command"

\* Lines 43-51, up to the first await or exit.
CheckConnected(t) ==
    LET z == Manager(t) IN
    /\ pc[t] = "check"
    /\ pc' = [pc EXCEPT ![t] =
                IF ConnectionCheck(z) = "raise_AttributeError"
                THEN "except_other"
                ELSE ConnectionCheck(z)]
    /\ UNCHANGED <<now, receiver, sessionVars, lockVars, closed, failed,
                   wakeAt, result, ghostVars>>
    /\ UNCHANGED componentVars

\* What "except Exception" (lines 63-66) leaves: the flag and the value the
\* call returns.
OnUnexpectedErrorReraise(z) == [connected |-> FALSE, returns |-> "raised"]

OnUnexpectedErrorConnects(z) == [connected |-> TRUE, returns |-> "None"]

OnUnexpectedError(z) == [connected |-> FALSE, returns |-> "None"]

\* Lines 63-66: AttributeError is none of TimeoutError,
\* ConnectionRefusedError, OSError, so the second handler takes it.
HandleUnexpectedError(t) ==
    LET z == Manager(t) IN
    /\ pc[t] = "except_other"
    /\ _is_connected' = [_is_connected EXCEPT ![z] = OnUnexpectedError(z).connected]
    /\ result' = [result EXCEPT ![t] = OnUnexpectedError(z).returns]
    /\ pc' = [pc EXCEPT ![t] = "exit"]
    /\ UNCHANGED <<now, receiver, _is_connecting, _last_command_time,
                   _reconnect_attempt, lockVars, closed, failed, wakeAt,
                   ghostVars>>
    /\ UNCHANGED componentVars

\* A return that would leave the lock with the caller.
ReturnHoldingLock(t) ==
    /\ pc[t] = "exit"
    /\ lockHolder[Manager(t)] = t
    /\ pc' = [pc EXCEPT ![t] = "returned"]
    /\ UNCHANGED <<now, receiver, sessionVars, lockVars, closed, failed,
                   wakeAt, result, ghostVars>>
    /\ UNCHANGED componentVars

\* Leaving "async with self._lock" releases the lock; the call returns.
ReleaseLock(t) ==
    LET z == Manager(t) IN
    /\ pc[t] = "exit"
    /\ lockHolder[z] = t
    /\ lockHolder' = [lockHolder EXCEPT ![z] = NoTask]
    /\ failed' = [failed EXCEPT ![z] = @ \/ result[t] # "reply"]
    /\ pc' = [pc EXCEPT ![t] = "returned"]
    /\ UNCHANGED <<now, receiver, sessionVars, lockWaiters, closed, wakeAt,
                   result, ghostVars>>
    /\ UNCHANGED componentVars

\* ------------------------------------------------------------ async_close
\* async_close (called by async_will_remove_from_hass): marks the session
\* disconnected and closes the receiver's socket.
Close(z) ==
    /\ ~closed[z]
    /\ _is_connected' = [_is_connected EXCEPT ![z] = FALSE]
    /\ closed' = [closed EXCEPT ![z] = TRUE]
    /\ UNCHANGED <<now, receiver, _is_connecting, _last_command_time,
                   _reconnect_attempt, lockVars, failed, pc, wakeAt, result,
                   ghostVars>>
    /\ UNCHANGED componentVars

\* ------------------------------------------------------------------ Next
Next ==
    \/ Tick
    \/ ReceiverChange
    \/ \E t \in Tasks : Call(t)
    \/ \E t \in Tasks : AcquireLock(t)
    \/ \E t \in Tasks : LockGranted(t)
    \/ \E t \in Tasks : RateLimit(t)
    \/ \E t \in Tasks : RateLimitWake(t)
    \/ \E t \in Tasks : CheckConnected(t)
    \/ \E t \in Tasks : HandleUnexpectedError(t)
    \/ \E t \in Tasks : ReleaseLock(t)
    \/ \E z \in Zones : Close(z)

Spec == Init /\ [][Next]_vars

\* The event loop runs every task that is ready: a task that can take its
\* next step inside async_send_command eventually takes it, and the clock
\* keeps advancing up to the horizon.  Nothing obliges a caller to call, the
\* receiver to change or the session to be closed.
Scheduling ==
    /\ WF_vars(Tick)
    /\ \A t \in Tasks :
           /\ WF_vars(AcquireLock(t))
           /\ WF_vars(LockGranted(t))
           /\ WF_vars(RateLimit(t))
           /\ WF_vars(RateLimitWake(t))
           /\ WF_vars(CheckConnected(t))
           /\ WF_vars(HandleUnexpectedError(t))
           /\ WF_vars(ReleaseLock(t))

\* The calls, the clock and async_close while the receiver stays
\* reachable.
NextLive ==
    \/ Tick
    \/ \E t \in Tasks : Call(t)
    \/ \E t \in Tasks : AcquireLock(t)
    \/ \E t \in Tasks : LockGranted(t)
    \/ \E t \in Tasks : RateLimit(t)
    \/ \E t \in Tasks : RateLimitWake(t)
    \/ \E t \in Tasks : CheckConnected(t)
    \/ \E t \in Tasks : HandleUnexpectedError(t)
    \/ \E t \in Tasks : ReleaseLock(t)
    \/ \E z \in Zones : Close(z)

InitLive == Init /\ receiver = "ok"

SpecLive == InitLive /\ [][NextLive]_vars /\ Scheduling

\* ============================================================ volume
\* The volume scaler as a pair of pure functions, in exact arithmetic.
\* h is a Home Assistant volume in hundredths, so h / 100 is the float the
\* code receives; the products below are the code's products times a
\* power of ten. (The code computes in IEEE doubles: where the exact
\* product is an integer the double may fall just under it.)

\* The ceilings and resolutions the scaler is configured with.
VolumeCeilings == {1, 50, 80, 100}
VolumeResolutions == {50, 80, 100, 200}

\* A fraction <<n, d>> with d > 0, and the comparisons the claims need.
Leq(a, b) == a[1] * b[2] <= b[1] * a[2]
Zero == <<0, 1>>
One == <<1, 1>>

\* min(1.0, max(0.0, x)) of line 696.
Clamp(x) == IF Leq(x, Zero) THEN Zero ELSE IF Leq(One, x) THEN One ELSE x

\* int(x) truncates toward zero.
IntOf(n, d) == IF n >= 0 THEN n \div d ELSE -((-n) \div d)

\* Variants of the forward conversion: without the ceiling factor, and
\* rounding up instead of truncating.
HaVolumeToReceiverUnscaled(h, mv, res) == IntOf(h * res, 100)
HaVolumeToReceiverRoundedUp(h, mv, res) == (h * mv * res + 9999) \div 10000

\* media_player.py:650-672: int(ha_volume * (max_volume / 100) * resolution).
_ha_volume_to_receiver(h, mv, res) == IntOf(h * mv * res, 10000)

\* media_player.py:674-696: (receiver_volume / resolution) / (max_volume /
\* 100), clamped to [0, 1].
_receiver_volume_to_ha(d, mv, res) == Clamp(<<d * 100, res * mv>>)

\* __init__.py:475-493.
calculate_volume(h, mv, res) == IntOf(h * mv * res, 10000)

\* __init__.py:496-513: the same quotient, returned as it is.
calculate_ha_volume(d, mv, res) == <<d * 100, res * mv>>

\* The scaler is configured and handed either a Home Assistant volume to
\* set or a device value the receiver reports.
InitVolume ==
    /\ IntegrationIdle
    /\ SessionInit
    /\ receiver = "ok"
    /\ max_volume \in VolumeCeilings
    /\ volume_resolution \in VolumeResolutions
    /\ \/ /\ given = "ha_volume"
          /\ ha_volume \in 0..100
          /\ receiver_volume = 0
       \/ /\ given = "receiver_volume"
          /\ ha_volume = 0
          /\ receiver_volume \in 0..volume_resolution
    /\ ha_result = NoResult
    /\ applied = <<>>
    /\ PollIdle
    /\ EntityIdle

sessionOnly == <<now, receiver, sessionVars, lockVars, closed, failed, pc,
                 wakeAt, result, ghostVars>>

sessionAndClock == <<sessionOnly, integrationVars>>

\* async_set_volume_level, line 509.
HaVolumeToReceiver ==
    /\ applied = <<>>
    /\ given = "ha_volume"
    /\ receiver_volume' =
           _ha_volume_to_receiver(ha_volume, max_volume, volume_resolution)
    /\ applied' = <<"_ha_volume_to_receiver">>
    /\ UNCHANGED <<sessionAndClock, pollVars, entVars, max_volume,
                   volume_resolution, given, ha_volume,
                   ha_result>>

\* _handle_receiver_update (line 261) and _async_update_volume (line 349).
ReceiverVolumeToHa ==
    /\ given = "receiver_volume" \/ applied # <<>>
    /\ ha_result = NoResult
    /\ ha_result' =
           _receiver_volume_to_ha(receiver_volume, max_volume, volume_resolution)
    /\ applied' = Append(applied, "_receiver_volume_to_ha")
    /\ UNCHANGED <<sessionAndClock, pollVars, entVars, max_volume,
                   volume_resolution, given, ha_volume,
                   receiver_volume>>

\* The module-level helper of __init__.py, forward.
CalculateVolume ==
    /\ applied = <<>>
    /\ given = "ha_volume"
    /\ receiver_volume' =
           calculate_volume(ha_volume, max_volume, volume_resolution)
    /\ applied' = <<"calculate_volume">>
    /\ UNCHANGED <<sessionAndClock, pollVars, entVars, max_volume,
                   volume_resolution, given, ha_volume,
                   ha_result>>

\* The module-level helper of __init__.py, backward.
CalculateHaVolume ==
    /\ given = "receiver_volume" \/ applied # <<>>
    /\ ha_result = NoResult
    /\ ha_result' =
           calculate_ha_volume(receiver_volume, max_volume, volume_resolution)
    /\ applied' = Append(applied, "calculate_ha_volume")
    /\ UNCHANGED <<sessionAndClock, pollVars, entVars, max_volume,
                   volume_resolution, given, ha_volume,
                   receiver_volume>>

NextVolume ==
    \/ HaVolumeToReceiver
    \/ ReceiverVolumeToHa
    \/ CalculateVolume
    \/ CalculateHaVolume

SpecVolume == InitVolume /\ [][NextVolume]_vars

\* ======================================================= coordinator
\* One refresh of OnkyoUpdateCoordinator. receiver.command is a blocking
\* call made on the event loop, so each fetch runs from its first line to
\* its return without interleaving.

\* config_entry.options["sources"]: device code -> label.
sources == ("cbl" :> "Cable") @@ ("dvd" :> "BluRay") @@ ("fm" :> "Radio")

\* str.lower() on the labels and codes of the model.
Lower(x) ==
    CASE x = "Cable" -> "cable"
      [] x = "BluRay" -> "bluray"
      [] x = "Radio" -> "radio"
      [] x = "RADIO" -> "radio"
      [] OTHER -> x

\* str.split(",") on the strings of the model.
Split(x) ==
    CASE x = "HDMI 1,PCM,48 kHz,2.0 ch" -> <<"HDMI 1", "PCM", "48 kHz", "2.0 ch">>
      [] x = "HDMI 1,1080p" -> <<"HDMI 1", "1080p">>
      [] OTHER -> <<x>>

\* sep.join(parts).
RECURSIVE Join(_, _)
Join(parts, sep) ==
    IF Len(parts) = 0 THEN ""
    ELSE IF Len(parts) = 1 THEN parts[1]
    ELSE parts[1] \o sep \o Join(Tail(parts), sep)

\* ",".join(value) of line 139: a tuple is joined by its items, a string by
\* its characters.
JoinHdmi(r) ==
    IF r.kind = "tuple" THEN Join(r.value, ",")
    ELSE CASE r.value = "N/A" -> "N,/,A"
           [] r.value = "yes" -> "y,e,s"
           [] OTHER -> r.value

\* _parse_onkyo_payload: False for a bool (held as the empty sequence, its
\* callers only test it), the parts of a string, the value otherwise.
_parse_onkyo_payload(r) ==
    IF r.kind = "False" THEN <<>>
    ELSE IF r.kind = "str" THEN Split(r.value)
    ELSE r.value

\* _tuple_get(tup, index): the item at a 0-based index, or None.
_tuple_get(tup, index) ==
    IF index + 1 <= Len(tup) THEN tup[index + 1] ELSE None

_parse_audio_information(r) ==
    LET values == _parse_onkyo_payload(r) IN
    IF values # <<>>
    THEN "audio_information" :>
             [format |-> _tuple_get(values, 1),
              input_frequency |-> _tuple_get(values, 2),
              input_channels |-> _tuple_get(values, 3),
              listening_mode |-> _tuple_get(values, 4),
              output_channels |-> _tuple_get(values, 5),
              output_frequency |-> _tuple_get(values, 6)]
    ELSE <<>>

_parse_video_information(r) ==
    LET values == _parse_onkyo_payload(r) IN
    IF values # <<>>
    THEN "video_information" :>
             [input_resolution |-> _tuple_get(values, 1),
              input_color_schema |-> _tuple_get(values, 2),
              input_color_depth |-> _tuple_get(values, 3),
              output_resolution |-> _tuple_get(values, 5),
              output_color_schema |-> _tuple_get(values, 6),
              output_color_depth |-> _tuple_get(values, 7),
              picture_mode |-> _tuple_get(values, 8)]
    ELSE <<>>

\* The loop of lines 116-120 and 183-187, from its i-th item on, with the
\* value current_source has so far: a variant that goes on after a match,
\* and the loop as written, which breaks.
RECURSIVE ResolveSourceNoBreak(_, _, _)
ResolveSourceNoBreak(codes, i, current) ==
    IF i > Len(codes) THEN current
    ELSE ResolveSourceNoBreak(codes, i + 1,
             IF codes[i] \in DOMAIN sources THEN sources[codes[i]]
             ELSE Join(codes, "_"))

RECURSIVE ResolveSource(_, _, _)
ResolveSource(codes, i, current) ==
    IF i > Len(codes) THEN current
    ELSE IF codes[i] \in DOMAIN sources THEN sources[codes[i]]
    ELSE ResolveSource(codes, i + 1, Join(codes, "_"))

\* A local variable no assignment has bound yet.
Unbound == "UnboundLocalError"

\* Which reply of the receiver a command reads.
FieldOf ==
    ("system-power query" :> "power") @@ ("volume query" :> "volume")
    @@ ("audio-muting query" :> "mute")
    @@ ("input-selector query" :> "source") @@ ("preset query" :> "preset")
    @@ ("listening-mode query" :> "listening_mode")
    @@ ("hdmi-output-selector query" :> "hdmi")
    @@ ("audio-information query" :> "audio")
    @@ ("video-information query" :> "video")
    @@ ("zone2.power=query" :> "zone_power")
    @@ ("zone2.volume=query" :> "volume")
    @@ ("zone2.muting=query" :> "mute")
    @@ ("zone2.selector=query" :> "source")
    @@ ("zone2.preset=query" :> "preset")

\* self.receiver.command(cmd), when it returns.
Command(cmd) == replies[FieldOf[cmd]]

\* status[1] == "on" (lines 81, 155), and a test that any answer passes.
IsAnswered(status) == status.kind = "str"

IsOn(status) == status.kind = "str" /\ status.value = "on"

\* The commands a fetch issues, in program order, if none of them raises.
MainCommands ==
    <<"system-power query">> \o
    ( IF Truthy(Command("system-power query"))
         /\ IsOn(Command("system-power query"))
      THEN <<"volume query", "audio-muting query", "input-selector query",
             "preset query", "listening-mode query">>
           \o (IF hdmi_out_supported
               THEN <<"hdmi-output-selector query">> ELSE <<>>)
           \o (IF audio_info_supported
               THEN <<"audio-information query">> ELSE <<>>)
           \o (IF video_info_supported
               THEN <<"video-information query">> ELSE <<>>)
      ELSE <<>> )

ZoneCommands ==
    <<"zone2.power=query">> \o
    ( IF Truthy(Command("zone2.power=query"))
         /\ IsOn(Command("zone2.power=query"))
      THEN <<"zone2.volume=query", "zone2.muting=query",
             "zone2.selector=query", "zone2.preset=query">>
      ELSE <<>> )

\* The commands issued up to and including the one that raises.
IssuedOf(cmds) ==
    IF \E k \in 1..Len(cmds) : cmds[k] = raisesOn
    THEN SubSeq(cmds, 1, CHOOSE k \in 1..Len(cmds) : cmds[k] = raisesOn)
    ELSE cmds

Raises(cmds) == \E k \in 1..Len(cmds) : cmds[k] = raisesOn

\* dict.update: the new items replace the old ones.
Update(d, items) == items @@ d

\* lines 124-127 and 194-197: the preset attribute.
WithPreset(attributes, preset_raw, current_source) ==
    IF Truthy(preset_raw) /\ Lower(current_source) = "radio"
    THEN Update(attributes, "preset" :> preset_raw.value)
    ELSE [k \in DOMAIN attributes \ {"preset"} |-> attributes[k]]

\* async_fetch_data, lines 73-145, when no command raises: what it returns,
\* or the exception it ends with.
FetchData ==
    LET status == Command("system-power query")
        volume_raw == Command("volume query")
        mute_raw == Command("audio-muting query")
        current_source_raw == Command("input-selector query")
        preset_raw == Command("preset query")
        listening_mode_raw == Command("listening-mode query")
        hdmi_out_raw == IF hdmi_out_supported
                        THEN Command("hdmi-output-selector query")
                        ELSE NoReply
        data1 == "pwstate" :> "on"
        data2 == IF Truthy(listening_mode_raw)
                 THEN LET parsed == _parse_onkyo_payload(listening_mode_raw)
                      IN Update(data1, "sound_mode" :> parsed[Len(parsed)])
                 ELSE data1
        attributes1 ==
            IF audio_info_supported
            THEN _parse_audio_information(Command("audio-information query"))
            ELSE <<>>
        attributes2 ==
            IF video_info_supported
            THEN Update(attributes1,
                     _parse_video_information(Command("video-information query")))
            ELSE attributes1
        codes == _parse_onkyo_payload(current_source_raw)
        current_source == ResolveSource(codes, 1, Unbound)
        data3 == Update(data2, "current_source" :> current_source)
        attributes3 == WithPreset(attributes2, preset_raw, current_source)
        data4 == Update(data3, "muted" :> IsOn(mute_raw))
        data5 == Update(data4, "volume" :>
                     <<volume_raw.value * 100,
                       receiver_max_volume * max_volume>>)
        attributes4 == Update(attributes3, "hdmi_output" :> JoinHdmi(hdmi_out_raw))
        data6 == IF hdmi_out_raw.kind = "str" /\ hdmi_out_raw.value = "N/A"
                 THEN Update(data5, "hdmi_out_supported" :> FALSE)
                 ELSE data5
    IN
    IF ~Truthy(status) THEN [raised |-> None, data |-> <<>>]
    ELSE IF ~IsOn(status)
    THEN [raised |-> None,
          data |-> ("pwstate" :> "off") @@ ("attributes" :> <<>>)]
    ELSE IF ~(Truthy(volume_raw) /\ Truthy(mute_raw) /\ Truthy(current_source_raw))
    THEN [raised |-> None, data |-> data2]
    ELSE IF current_source = Unbound
    THEN [raised |-> "UnboundLocalError", data |-> <<>>]
    ELSE IF volume_raw.kind # "int"
    THEN [raised |-> "TypeError", data |-> <<>>]
    ELSE IF ~Truthy(hdmi_out_raw)
    THEN [raised |-> None, data |-> data5]
    ELSE [raised |-> None, data |-> Update(data6, "attributes" :> attributes4)]

\* async_fetch_data_zone, lines 147-205, when no command raises.
FetchDataZone ==
    LET status == Command("zone2.power=query")
        volume_raw == Command("zone2.volume=query")
        mute_raw == Command("zone2.muting=query")
        current_source_raw == Command("zone2.selector=query")
        preset_raw == Command("zone2.preset=query")
        supports_volume == volume_raw.kind = "int"
        codes == IF current_source_raw.kind = "str"
                 THEN <<current_source_raw.value>>
                 ELSE current_source_raw.value
        current_source == ResolveSource(codes, 1, Unbound)
        data1 == "pwstate" :> "on"
        data2 == Update(data1, "current_source" :> current_source)
        data3 == Update(data2, "muted" :> IsOn(mute_raw))
        attributes1 == WithPreset(<<>>, preset_raw, current_source)
        data4 == IF supports_volume
                 THEN Update(data3, "volume" :>
                          <<volume_raw.value * max_volume,
                            receiver_max_volume * 100>>)
                 ELSE data3
    IN
    IF ~Truthy(status) THEN [raised |-> None, data |-> <<>>]
    ELSE IF ~IsOn(status)
    THEN [raised |-> None,
          data |-> ("pwstate" :> "off") @@ ("attributes" :> <<>>)]
    ELSE IF ~(Truthy(volume_raw) /\ Truthy(mute_raw) /\ Truthy(current_source_raw))
    THEN [raised |-> None, data |-> <<>>]
    ELSE IF current_source = Unbound
    THEN [raised |-> "UnboundLocalError", data |-> <<>>]
    ELSE [raised |-> None, data |-> Update(data4, "attributes" :> attributes1)]

\* What the receiver may answer to each query of a cycle.
PowerReplies == {NoReply, StrReply("on"), StrReply("standby")}
VolumeReplies == {NoReply, IntReply(42), StrReply("N/A")}
MuteReplies == {NoReply, StrReply("on"), StrReply("off")}
SourceReplies ==
    {NoReply, StrReply("dvd"), StrReply("fm"), StrReply("net"),
     TupleReply(<<"video2", "cbl", "sat">>), TupleReply(<<"net", "network">>)}
PresetReplies == {NoReply, IntReply(3)}
ListeningModeReplies == {NoReply, StrReply("stereo")}
HdmiReplies == {NoReply, StrReply("N/A"), TupleReply(<<"yes", "out">>)}
AudioReplies == {NoReply, StrReply("HDMI 1,PCM,48 kHz,2.0 ch")}
VideoReplies == {NoReply, StrReply("HDMI 1,1080p")}

\* The commands on which receiver.command may raise (eiscp raises
\* ValueError on a timeout, the socket OSError) instead of returning.
RaisingCommands == {"system-power query", "zone2.volume=query"}

\* The coordinator as constructed, about to refresh, and the receiver's
\* behaviour over the cycle.
InitPoll ==
    /\ IntegrationIdle
    /\ SessionInit
    /\ receiver = "ok"
    /\ given = None
    /\ ha_volume = 0
    /\ receiver_volume = 0
    /\ ha_result = NoResult
    /\ applied = <<>>
    /\ volume_resolution = 80
    /\ max_volume \in {50, 100}
    /\ hdmi_out_supported = TRUE
    /\ audio_info_supported = TRUE
    /\ video_info_supported = TRUE
    /\ receiver_max_volume = 80
    /\ replies \in [power : PowerReplies, zone_power : PowerReplies,
                    volume : VolumeReplies, mute : MuteReplies,
                    source : SourceReplies, preset : PresetReplies,
                    listening_mode : ListeningModeReplies,
                    hdmi : HdmiReplies, audio : AudioReplies,
                    video : VideoReplies]
    /\ raisesOn \in {None} \cup RaisingCommands
    /\ zonesFound = None
    /\ pollPc = "refresh"
    /\ issued = <<>>
    /\ data = <<>>
    /\ returned = <<>>
    /\ EntityIdle

pollFrame == <<sessionAndClock, volVars, entVars, hdmi_out_supported,
               audio_info_supported, video_info_supported,
               receiver_max_volume, replies, raisesOn>>

\* _async_update_data, lines 58-61: main = await self.async_fetch_data();
\* an exception goes to "except Exception" (lines 67-69), which raises
\* UpdateFailed.
AsyncFetchData ==
    /\ pollPc = "refresh"
    /\ issued' = IssuedOf(MainCommands)
    /\ IF Raises(MainCommands) \/ FetchData.raised # None
       THEN /\ pollPc' = "UpdateFailed"
            /\ UNCHANGED data
       ELSE /\ pollPc' = "zones"
            /\ data' = Update(data, "main" :> FetchData.data)
    /\ UNCHANGED <<pollFrame, zonesFound, returned>>

\* Line 63: self._determine_zones(self.receiver) finds zone 2 or not, or
\* raises HomeAssistantError on a ValueError other than a timeout.
DetermineZones ==
    /\ pollPc = "zones"
    /\ \E found \in {"zone2", "no zone", "HomeAssistantError"} :
           /\ zonesFound' = found
           /\ pollPc' = CASE found = "zone2" -> "fetch_zone"
                          [] found = "no zone" -> "return"
                          [] OTHER -> "UpdateFailed"
    /\ UNCHANGED <<pollFrame, issued, data, returned>>

\* Lines 64-65: other = await self.async_fetch_data_zone(zone).
AsyncFetchDataZone ==
    /\ pollPc = "fetch_zone"
    /\ issued' = issued \o IssuedOf(ZoneCommands)
    /\ IF Raises(ZoneCommands) \/ FetchDataZone.raised # None
       THEN /\ pollPc' = "UpdateFailed"
            /\ UNCHANGED data
       ELSE /\ pollPc' = "return"
            /\ data' = Update(data, "zone2" :> FetchDataZone.data)
    /\ UNCHANGED <<pollFrame, zonesFound, returned>>

\* Lines 70-71: else: return data.
ReturnData ==
    /\ pollPc = "return"
    /\ returned' = data
    /\ pollPc' = "returned"
    /\ UNCHANGED <<pollFrame, zonesFound, issued, data>>

NextPoll ==
    \/ AsyncFetchData
    \/ DetermineZones
    \/ AsyncFetchDataZone
    \/ ReturnData

SpecPoll == InitPoll /\ [][NextPoll]_vars

\* ============================================================ entity
\* The methods of one OnkyoMediaPlayer. Every assignment a method makes
\* comes after its last await, so each method is one step, taken when it
\* completes.

\* What async_send_command hands back: None, or the reply of
\* receiver.command, a pair (name, value).
NoneResult == [kind |-> "None"]

\* A session that delivers: the receiver answers the two list queries
\* with a dict and every other query with the pair of a name and "on".
SendDelivered(cmd) ==
    IF cmd \in {"SLIQSTN", "LMQSTN"}
    THEN [kind |-> "dict", value |-> <<"dvd", "cbl">>]
    ELSE [kind |-> "str", value |-> "on"]

\* self._conn_manager.async_send_command(...): every call ends in the
\* handler of connection.py:63-66 and returns None, whatever the command
\* and the receiver's condition (EverySendReturnsNone, checked on Spec).
async_send_command(cmd) == NoneResult

\* "if result:".
ResultTruthy(r) == r.kind \notin {"None", "False"}

\* isinstance(result, tuple) and len(result) >= 2.
IsPair(r) == r.kind \in {"int", "str", "tuple"}

\* The command strings of the entity, by zone.
ZoneCommand(z, main, zoned) == IF z = "main" THEN main ELSE z \o "." \o zoned

PowerQuery == ZoneCommand(_zone, "system-power=query", "power=query")
VolumeQuery == ZoneCommand(_zone, "master-volume=query", "volume=query")
SourceQuery == ZoneCommand(_zone, "input-selector=query", "selector=query")
MuteQuery == ZoneCommand(_zone, "audio-muting=query", "muting=query")

\* A poller that takes an unanswered power query for on.
PowerStateAssumedOn == "on"

\* A poller that takes an unanswered power query for standby.
PowerStateAssumedStandby == "standby"

\* _async_get_power_state, lines 315-334: result[1] of a pair, str(result)
\* otherwise.
_async_get_power_state ==
    LET sendResult == async_send_command(PowerQuery) IN
    IF IsPair(sendResult) THEN sendResult.value ELSE sendResult.kind

\* _async_update_volume, lines 336-352: the volume level it leaves.
_async_update_volume ==
    LET sendResult == async_send_command(VolumeQuery)
        volume == IF sendResult.kind = "scalar" THEN sendResult.value ELSE 50
    IN IF ResultTruthy(sendResult)
       THEN _receiver_volume_to_ha(volume, max_volume, volume_resolution)
       ELSE _attr_volume_level

\* _async_update_source, lines 354-372: the source it leaves.
_async_update_source ==
    LET sendResult == async_send_command(SourceQuery) IN
    IF ResultTruthy(sendResult)
    THEN IF IsPair(sendResult) THEN sendResult.value ELSE sendResult.kind
    ELSE _attr_source

\* _async_update_mute, lines 374-389: str(result) == "on".
_async_update_mute ==
    LET sendResult == async_send_command(MuteQuery) IN
    IF ResultTruthy(sendResult)
    THEN sendResult.kind = "scalar" /\ sendResult.value = "on"
    ELSE _attr_is_volume_muted

\* _async_fetch_source_list and _async_fetch_listening_modes, lines
\* 391-455: the keys of a dict reply, the empty list otherwise.
FetchedList(raw) ==
    LET sendResult == async_send_command(raw) IN
    IF sendResult.kind = "dict" THEN sendResult.value ELSE <<>>

\* The lists after "if not self._attr_source_list: await
\* self._async_fetch_source_list()" and its twin for listening modes.
SourceListAfterFetch ==
    IF _attr_source_list = <<>> THEN FetchedList("SLIQSTN")
    ELSE _attr_source_list
ListeningModesAfterFetch ==
    IF _listening_modes = <<>> THEN FetchedList("LMQSTN")
    ELSE _listening_modes

ListFetches ==
    (IF _attr_source_list = <<>> THEN <<"SLIQSTN">> ELSE <<>>)
    \o (IF _listening_modes = <<>> THEN <<"LMQSTN">> ELSE <<>>)

\* One entity, added to Home Assistant, of either zone, and a receiver in
\* some power state, at some volume, behind some network condition.
InitEntity ==
    /\ IntegrationIdle
    /\ SessionInit
    /\ max_volume \in {80, 100}
    /\ volume_resolution = 80
    /\ given = None
    /\ ha_volume = 0
    /\ receiver_volume = 0
    /\ ha_result = NoResult
    /\ applied = <<>>
    /\ PollIdle
    /\ added = TRUE
    /\ _zone \in Zones
    /\ Constructed
    /\ device \in [power : {"on", "standby"}, volume : {42, 80}]
    /\ sent = <<>>
    /\ lastOp = [name |-> None, raised |-> FALSE]

\* What no method of the entity assigns.
entConst == <<sessionAndClock, volVars, pollVars, added, _zone, device>>

\* What only a power poll and a power push change.
entBase == <<entConst, power_reported>>

\* What the polls, the push handler and the power and volume methods leave
\* alone.
entFrame == <<entBase, _attr_extra_state_attributes, playing>>

\* async_update with _async_update_all, lines 275-313. The helpers catch
\* their own exceptions, so the handler of lines 283-285 has nothing to
\* catch.
AsyncUpdate ==
    /\ added
    /\ LET power_state == _async_get_power_state IN
       IF power_state = "on"
       THEN /\ _attr_state' = "on"
            /\ _attr_available' = TRUE
            /\ _attr_volume_level' = _async_update_volume
            /\ _attr_source' = _async_update_source
            /\ _attr_is_volume_muted' = _async_update_mute
            /\ _attr_source_list' = SourceListAfterFetch
            /\ _listening_modes' = ListeningModesAfterFetch
            /\ sent' = <<PowerQuery, VolumeQuery, SourceQuery, MuteQuery>>
                       \o ListFetches
       ELSE IF power_state = "standby"
       THEN /\ _attr_state' = "off"
            /\ _attr_available' = TRUE
            /\ sent' = <<PowerQuery>>
            /\ UNCHANGED <<_attr_volume_level, _attr_is_volume_muted,
                           _attr_source, _attr_source_list, _listening_modes>>
       ELSE /\ _attr_available' = FALSE
            /\ sent' = <<PowerQuery>>
            /\ UNCHANGED <<_attr_state, _attr_volume_level,
                           _attr_is_volume_muted, _attr_source,
                           _attr_source_list, _listening_modes>>
    /\ lastOp' = [name |-> "async_update", raised |-> FALSE]
    /\ power_reported' = (_async_get_power_state \in {"on", "standby"})
    /\ UNCHANGED <<entConst, _attr_extra_state_attributes, playing>>

\* The values a push update carries, per command.
PushValues(command) ==
    CASE command = "power" -> {"on", "standby"}
      [] command = "volume" -> {0, 42, 80}
      [] command = "muting" -> {"on", "off"}
      [] command \in {"input-selector", "selector"} ->
             {"dvd", <<"video2", "cbl", "sat">>}
      [] OTHER -> {"5"}

\* The commands a push update names; "preset" is one the handler has no
\* branch for.
PushCommands ==
    {"power", "volume", "muting", "input-selector", "selector", "preset"}

\* A handler that takes every update for its own zone's.
EveryZoneIsOwn(zone) == TRUE

\* The test of line 242.
IsOwnZone(zone) == zone = _zone

\* _handle_receiver_update, lines 232-273, called by a receiver object
\* that offers register_callback (line 218).
HandleReceiverUpdate ==
    /\ added
    /\ \E zone \in Zones,
          command \in PushCommands :
         \E value \in PushValues(command) :
           /\ IF ~IsOwnZone(zone) THEN UNCHANGED attrVars
              ELSE CASE command = "power" ->
                        /\ _attr_state' = IF value = "on" THEN "on" ELSE "off"
                        /\ _attr_available' = TRUE
                        /\ UNCHANGED <<_attr_volume_level,
                                       _attr_is_volume_muted, _attr_source,
                                       _attr_source_list, _listening_modes>>
                     [] command = "volume" ->
                        /\ _attr_volume_level' =
                               _receiver_volume_to_ha(value, max_volume,
                                                      volume_resolution)
                        /\ UNCHANGED <<_attr_state, _attr_available,
                                       _attr_is_volume_muted, _attr_source,
                                       _attr_source_list, _listening_modes>>
                     [] command = "muting" ->
                        /\ _attr_is_volume_muted' = (value = "on")
                        /\ UNCHANGED <<_attr_state, _attr_available,
                                       _attr_volume_level, _attr_source,
                                       _attr_source_list, _listening_modes>>
                     [] command \in {"input-selector", "selector"} ->
                        /\ _attr_source' =
                               IF value = "dvd" THEN value
                               ELSE IF Len(value) > 1 THEN value[2]
                               ELSE value[1]
                        /\ UNCHANGED <<_attr_state, _attr_available,
                                       _attr_volume_level,
                                       _attr_is_volume_muted,
                                       _attr_source_list, _listening_modes>>
                     [] OTHER -> UNCHANGED attrVars
           /\ power_reported' =
                  IF IsOwnZone(zone) /\ command = "power"
                  THEN value \in {"on", "standby"}
                  ELSE power_reported
           /\ sent' = <<>>
           /\ lastOp' = [name |-> "_handle_receiver_update",
                         raised |-> FALSE, zone |-> zone,
                         command |-> command,
                         \* async_write_ha_state, line 273
                         wrote |-> IsOwnZone(zone)]
    /\ UNCHANGED <<entConst, _attr_extra_state_attributes, playing>>

\* async_turn_on, lines 459-484: nothing in the try block raises when the
\* send returns None, so the handler of lines 481-484 does not run.
AsyncTurnOn ==
    /\ added
    /\ sent' = <<ZoneCommand(_zone, "system-power=on", "power=on")>>
               \o ListFetches
    /\ _attr_source_list' = SourceListAfterFetch
    /\ _listening_modes' = ListeningModesAfterFetch
    /\ _attr_state' = "on"
    /\ _attr_available' = TRUE
    /\ lastOp' = [name |-> "async_turn_on", raised |-> FALSE]
    /\ UNCHANGED <<entFrame, _attr_volume_level, _attr_is_volume_muted,
                   _attr_source>>

\* async_turn_off, lines 486-500.
AsyncTurnOff ==
    /\ added
    /\ sent' = <<ZoneCommand(_zone, "system-power=standby", "power=standby")>>
    /\ _attr_state' = "off"
    /\ lastOp' = [name |-> "async_turn_off", raised |-> FALSE]
    /\ UNCHANGED <<entFrame, _attr_available, _attr_volume_level,
                   _attr_is_volume_muted, _attr_source, _attr_source_list,
                   _listening_modes>>

\* The volumes a user sets, in hundredths.
UserVolumes == {0, 50, 77, 100}

\* async_set_volume_level, lines 502-522; the command carries the device
\* value (kept in sent as the pair of the command's name and the value).
AsyncSetVolumeLevel ==
    /\ added
    /\ \E volume \in UserVolumes :
         /\ sent' = << <<ZoneCommand(_zone, "master-volume", "volume"),
                         _ha_volume_to_receiver(volume, max_volume,
                                                volume_resolution)>> >>
         /\ _attr_volume_level' = <<volume, 100>>
    /\ lastOp' = [name |-> "async_set_volume_level", raised |-> FALSE]
    /\ UNCHANGED <<entFrame, _attr_state, _attr_available,
                   _attr_is_volume_muted, _attr_source, _attr_source_list,
                   _listening_modes>>

\* async_volume_up and async_volume_down, lines 524-558: the step
\* command, then _async_update_volume.
AsyncVolumeStep ==
    /\ added
    /\ \E step \in {"level-up", "level-down"} :
         sent' = <<ZoneCommand(_zone, "master-volume=" \o step,
                               "volume=" \o step),
                   VolumeQuery>>
    /\ _attr_volume_level' = _async_update_volume
    /\ lastOp' = [name |-> "async_volume_step", raised |-> FALSE]
    /\ UNCHANGED <<entFrame, _attr_state, _attr_available,
                   _attr_is_volume_muted, _attr_source, _attr_source_list,
                   _listening_modes>>

\* async_mute_volume, lines 560-575.
AsyncMuteVolume ==
    /\ added
    /\ \E mute \in BOOLEAN :
         /\ sent' = <<ZoneCommand(_zone, "audio-muting", "muting")
                      \o (IF mute THEN "=on" ELSE "=off")>>
         /\ _attr_is_volume_muted' = mute
    /\ lastOp' = [name |-> "async_mute_volume", raised |-> FALSE]
    /\ UNCHANGED <<entFrame, _attr_state, _attr_available,
                   _attr_volume_level, _attr_source, _attr_source_list,
                   _listening_modes>>

\* The command of async_select_source, lines 580-583.
SelectSourceCommand(source) ==
    ZoneCommand(_zone, "input-selector=" \o source, "selector=" \o source)

\* The sources a user selects.
UserSources == {"dvd", "radio"}

\* async_select_source, lines 577-591.
AsyncSelectSource ==
    /\ added
    /\ \E source \in UserSources :
         /\ sent' = <<SelectSourceCommand(source)>>
         /\ _attr_source' = source
    /\ lastOp' = [name |-> "async_select_source", raised |-> FALSE]
    /\ UNCHANGED <<entFrame, _attr_state, _attr_available,
                   _attr_volume_level, _attr_is_volume_muted,
                   _attr_source_list, _listening_modes>>

\* The media types and the preset a caller passes to async_play_media.
MediaTypes == {"radio", "Radio", "RADIO", "music"}
MediaIds == {"5"}

\* A test that takes every media type for radio.
AnyMediaTypeIsRadio(media_type) == TRUE

\* The test of line 604.
IsRadio(media_type) == Lower(media_type) = "radio"

\* async_play_media, lines 593-619, up to its sleep of line 607: for
\* radio it selects the source "radio" (async_select_source, with its
\* assignment and state write); for any other media type it warns and
\* returns.
AsyncPlayMedia ==
    /\ added
    /\ playing = <<>>
    /\ \E media_type \in MediaTypes, media_id \in MediaIds :
         /\ IF IsRadio(media_type)
            THEN /\ sent' = <<SelectSourceCommand("radio")>>
                 /\ _attr_source' = "radio"
                 /\ playing' = <<media_type, media_id>>
            ELSE /\ sent' = <<>>
                 /\ UNCHANGED <<_attr_source, playing>>
         /\ lastOp' = [name |-> "async_play_media", raised |-> FALSE,
                       media_type |-> media_type]
    /\ UNCHANGED <<entBase, _attr_extra_state_attributes, _attr_state,
                   _attr_available, _attr_volume_level,
                   _attr_is_volume_muted, _attr_source_list,
                   _listening_modes>>

\* The command of line 610.
PresetCommand(media_id) ==
    ZoneCommand(_zone, "preset=" \o media_id, "preset=" \o media_id)

\* async_play_media after its sleep, lines 610-613: the preset command.
AsyncPlayMediaPreset ==
    /\ added
    /\ playing # <<>>
    /\ sent' = <<SelectSourceCommand("radio"), PresetCommand(playing[2])>>
    /\ playing' = <<>>
    /\ lastOp' = [name |-> "async_play_media", raised |-> FALSE,
                  media_type |-> playing[1]]
    /\ UNCHANGED <<entBase, attrVars, _attr_extra_state_attributes>>

\* HDMI_OUTPUT_OPTIONS.
HDMI_OUTPUT_OPTIONS ==
    {"no", "analog", "yes", "out", "out-sub", "sub", "hdbaset", "both", "up"}

\* The values a caller passes to async_select_hdmi_output.
HdmiOutputs == {"out-sub", "both", "bogus"}

\* dict[key] = value on a dict kept as its set of items.
DictSet(d, key, value) == {item \in d : item[1] # key} \cup {<<key, value>>}

\* async_select_hdmi_output, lines 623-646: the only test is the one of
\* the zone, line 630.
AsyncSelectHdmiOutput ==
    /\ added
    /\ \E hdmi_output \in HdmiOutputs :
         IF _zone # "main"
         THEN /\ sent' = <<>>
              /\ UNCHANGED _attr_extra_state_attributes
         ELSE /\ sent' = <<"hdmi-output-selector=" \o hdmi_output>>
              /\ _attr_extra_state_attributes' =
                     DictSet(_attr_extra_state_attributes, "hdmi_output",
                             hdmi_output)
    /\ lastOp' = [name |-> "async_select_hdmi_output", raised |-> FALSE]
    /\ UNCHANGED <<entBase, attrVars, playing>>

NextEntity ==
    \/ AsyncUpdate
    \/ HandleReceiverUpdate
    \/ AsyncTurnOn
    \/ AsyncTurnOff
    \/ AsyncSetVolumeLevel
    \/ AsyncVolumeStep

SpecEntity == InitEntity /\ [][NextEntity]_vars

\* One entity of either zone with every method of the media player: the
\* polls, the push handler and the commands of a user.
InitCommands ==
    /\ InitEntity
    /\ receiver = "ok"
    /\ max_volume = 80
    /\ device = [power |-> "on", volume |-> 42]

NextCommands ==
    \/ AsyncUpdate
    \/ HandleReceiverUpdate
    \/ AsyncTurnOn
    \/ AsyncTurnOff
    \/ AsyncSetVolumeLevel
    \/ AsyncVolumeStep
    \/ AsyncMuteVolume
    \/ AsyncSelectSource
    \/ AsyncPlayMedia
    \/ AsyncPlayMediaPreset
    \/ AsyncSelectHdmiOutput

SpecCommands == InitCommands /\ [][NextCommands]_vars

\* Both pollers: the entity's async_update among the entity's other
\* methods, and the coordinator's refresh.
SpecPollers == (InitEntity \/ InitPoll) /\ [][NextEntity \/ NextPoll]_vars

\* ----------------------------------------------------------- helpers.py
\* A value of the library's command table: its name is a string or a
\* tuple of aliases (kept as a sequence either way, with the flag that
\* isinstance(name, tuple) tests).
Named(name, description) ==
    [tuple |-> FALSE, name |-> <<name>>, description |-> description]
Aliased(names, description) ==
    [tuple |-> TRUE, name |-> names, description |-> description]

\* COMMANDS["main"]["SLI"]["values"].values(), for some tables.
SliTables ==
    { <<>>,
      << Aliased(<<"video1", "vcr">>, "sets VIDEO1"),
         Named("dvd", "sets DVD"),
         Named("07", "sets 07"),
         Named("up", "sets Selector Position Wrap-Around Up"),
         Named("query", "gets The Selector Position"),
         Aliased(<<"tuner", "down">>, "sets TUNER") >>,
      << Named("dvd", "sets DVD"),
         Aliased(<<"dvd", "bd">>, "sets BD/DVD"),
         Aliased(<<"08", "source">>, "sets 08"),
         Named("09", "sets 09"),
         Named("down", "sets Selector Position Wrap-Around Down") >> }

\* COMMANDS["main"]["LMD"]["values"].values(), for some tables.
LmdTables ==
    { <<>>,
      << Named("stereo", "sets STEREO"),
         Aliased(<<"thx", "all-ch-stereo">>, "sets All Ch Stereo"),
         Named("up", "sets Listening Mode Wrap-Around Up"),
         Aliased(<<"up", "direct">>, "sets DIRECT") >>,
      << Named("stereo", "sets STEREO"),
         Named("stereo", "sets STEREO"),
         Aliased(<<"direct", "query">>, "gets The Listening Mode"),
         Named("down", "sets Listening Mode Wrap-Around Down") >> }

\* description.replace("sets ", "") on the descriptions of the model.
StripSets(description) ==
    CASE description = "sets VIDEO1" -> "VIDEO1"
      [] description = "sets DVD" -> "DVD"
      [] description = "sets BD/DVD" -> "BD/DVD"
      [] description = "sets TUNER" -> "TUNER"
      [] description = "sets 07" -> "07"
      [] description = "sets 08" -> "08"
      [] description = "sets 09" -> "09"
      [] description = "sets Selector Position Wrap-Around Up" ->
             "Selector Position Wrap-Around Up"
      [] description = "sets Selector Position Wrap-Around Down" ->
             "Selector Position Wrap-Around Down"
      [] OTHER -> description

\* name.replace("-", " ").title() on the names of the model.
Title(name) ==
    CASE name = "stereo" -> "Stereo"
      [] name = "all-ch-stereo" -> "All Ch Stereo"
      [] name = "direct" -> "Direct"
      [] name = "thx" -> "Thx"
      [] name = "up" -> "Up"
      [] name = "down" -> "Down"
      [] name = "query" -> "Query"
      [] OTHER -> name

\* A builder that skips nothing.
NothingSkipped == {}

\* The names build_sources_list skips, line 13.
SkippedSources == {"07", "08", "09", "up", "down", "query"}

\* The names build_sounds_mode_list skips, line 27.
SkippedSounds == {"up", "down", "query"}

\* The loop of build_sources_list, lines 8-15, over the values left.
RECURSIVE SourcesFrom(_, _)
SourcesFrom(values, sources_list) ==
    IF values = <<>> THEN sources_list
    ELSE LET value == Head(values)
             name == value.name[1]
             desc == StripSets(value.description)
         IN SourcesFrom(Tail(values),
                        IF name \in SkippedSources THEN sources_list
                        ELSE DictSet(sources_list, name, desc))

\* build_sources_list, lines 5-16.
build_sources_list == SourcesFrom(COMMANDS.SLI, {})

\* build_sounds_mode_list, lines 19-32: the names kept (the last alias of
\* a tuple), without duplicates, each with its title.
build_sounds_mode_list ==
    LET values == COMMANDS.LMD
        sounds_list ==
            { values[i].name[Len(values[i].name)] : i \in 1..Len(values) }
                \ SkippedSounds
    IN { <<name, Title(name)>> : name \in sounds_list }

\* "if sources:" on an argument that defaults to None.
Given(argument) == argument.given /\ argument.list # <<>>

\* "k in sources".
Contains(list, k) == \E i \in 1..Len(list) : list[i] = k

\* build_selected_dict, lines 35-41.
build_selected_dict(sources_arg, sounds_arg) ==
    IF Given(sources_arg)
    THEN { item \in build_sources_list : Contains(sources_arg.list, item[1]) }
    ELSE IF Given(sounds_arg)
    THEN { item \in build_sounds_mode_list :
             Contains(sounds_arg.list, item[1]) }
    ELSE {}

\* The selections a caller passes: an argument left out, an empty list,
\* and lists of codes, some of them not in the table.
NotGiven == [given |-> FALSE, list |-> <<>>]
ListGiven(list) == [given |-> TRUE, list |-> list]
SourceSelections ==
    { NotGiven, ListGiven(<<>>), ListGiven(<<"dvd">>),
      ListGiven(<<"dvd", "up">>), ListGiven(<<"video1", "07", "tuner">>) }
SoundSelections ==
    { NotGiven, ListGiven(<<>>), ListGiven(<<"stereo">>),
      ListGiven(<<"direct", "query", "all-ch-stereo">>) }

\* One call of one helper, over a command table and a selection.
InitHelpers ==
    /\ FlowIdle
    /\ HassIdle
    /\ MigrateIdle
    /\ SessionInit
    /\ receiver = "ok"
    /\ VolumeIdle
    /\ PollIdle
    /\ EntityIdle
    /\ COMMANDS \in [SLI : SliTables, LMD : LmdTables]
    /\ selected_sources \in SourceSelections
    /\ selected_sounds \in SoundSelections
    /\ helper = "None"
    /\ helper_result = {}

helperFrame == <<sessionOnly, volVars, pollVars, entVars, flowVars, hassVars,
                 migrateVars, COMMANDS,
                 selected_sources, selected_sounds>>

BuildSourcesList ==
    /\ helper = "None"
    /\ helper' = "build_sources_list"
    /\ helper_result' = build_sources_list
    /\ UNCHANGED helperFrame

BuildSoundsModeList ==
    /\ helper = "None"
    /\ helper' = "build_sounds_mode_list"
    /\ helper_result' = build_sounds_mode_list
    /\ UNCHANGED helperFrame

BuildSelectedDict ==
    /\ helper = "None"
    /\ helper' = "build_selected_dict"
    /\ helper_result' = build_selected_dict(selected_sources, selected_sounds)
    /\ UNCHANGED helperFrame

NextHelpers ==
    \/ BuildSourcesList
    \/ BuildSoundsModeList
    \/ BuildSelectedDict

SpecHelpers == InitHelpers /\ [][NextHelpers]_vars

\* -------------------------------------------------- the options flow
\* VOLUME_RESOLUTION_OPTIONS, config_flow.py line 37.
VOLUME_RESOLUTION_OPTIONS == {50, 80, 100, 200}

\* A form that accepts whatever is submitted.
SchemaAcceptsAll(input) == TRUE

\* options_schema, lines 318-331, applied to a submission of integers:
\* Home Assistant checks a submission against the data_schema of the form
\* on screen before it calls the step.
options_schema(input) ==
    /\ input.receiver_max_volume \in 1..200
    /\ input.volume_resolution \in VOLUME_RESOLUTION_OPTIONS
    /\ input.max_volume \in 1..100

\* The submissions of a user.
UserInputs ==
    { VolumeOptions(r, s, p) : r \in {0, 1, 100, 200, 201},
                               s \in {80, 200, 60},
                               p \in {0, 1, 50, 100, 101} }

\* The options an entry holds when the flow opens.
StoredOptions == {VolumeOptions(100, 80, 100), VolumeOptions(200, 50, 1)}

InitOptions ==
    /\ SessionInit
    /\ receiver = "ok"
    /\ VolumeIdle
    /\ PollIdle
    /\ EntityIdle
    /\ HelperIdle
    /\ HassIdle
    /\ MigrateIdle
    /\ entry_options \in StoredOptions
    /\ form_shown = FALSE
    /\ user_input = entry_options
    /\ flow_result = [type |-> "None", errors |-> {}]

flowFrame == <<sessionOnly, volVars, pollVars, entVars, helperVars, hassVars,
               migrateVars>>

\* async_step_init(None), lines 281-337: the form, with no error.
OptionsStepInit ==
    /\ ~form_shown
    /\ form_shown' = TRUE
    /\ flow_result' = [type |-> "form", errors |-> {}]
    /\ UNCHANGED <<flowFrame, entry_options, user_input>>

\* A submission: rejected by the form's schema, or handed to
\* async_step_init(user_input), lines 287-295, whose create_entry result
\* becomes the entry's options.
OptionsSubmit ==
    /\ form_shown
    /\ \E input \in UserInputs :
         /\ user_input' = input
         /\ IF ~options_schema(input)
            THEN /\ flow_result' = [type |-> "invalid_data", errors |-> {}]
                 /\ UNCHANGED <<entry_options, form_shown>>
            ELSE LET max_volume_given == input.receiver_max_volume IN
                 IF max_volume_given < 1 \/ max_volume_given > 200
                 THEN /\ flow_result' =
                            [type |-> "form",
                             errors |-> {<<"receiver_max_volume",
                                           "invalid_max_volume">>}]
                      /\ UNCHANGED <<entry_options, form_shown>>
                 ELSE /\ flow_result' = [type |-> "create_entry",
                                         errors |-> {}]
                      /\ entry_options' = input
                      /\ form_shown' = FALSE
    /\ UNCHANGED flowFrame

NextOptions ==
    \/ OptionsStepInit
    \/ OptionsSubmit

SpecOptions == InitOptions /\ [][NextOptions]_vars

\* --------------------------------------- config entries and hass.data
\* The hosts a user configures; an entry's id stands for its host.
Hosts == {"h1", "h2"}

\* What the receiver's network does to a call: it answers, the call
\* times out, the connection is refused, another OSError, or an exception
\* of another kind.
Conditions == {"ok", "timeout", "refused", "oserror", "error"}

\* "k in d", d[k] and d.pop(k) on a dict kept as its set of items.
HasKey(d, k) == \E item \in d : item[1] = k
DictGet(d, k) == (CHOOSE item \in d : item[1] = k)[2]
DictPop(d, k) == {item \in d : item[1] # k}

\* DOMAIN, const.py line 6 (a reserved word here).
DOMAIN_KEY == "onkyo"

\* A config flow that lets no failed connection test through.
TryConnectStrict(condition) ==
    [success |-> condition = "ok", error |-> condition, allow_setup |-> FALSE]

hassFrame == <<sessionOnly, volVars, pollVars, entVars, helperVars, flowVars,
               migrateVars>>

\* OnkyoConfigFlow._async_try_connect, lines 191-263.
_async_try_connect(condition) ==
    CASE condition = "ok" ->
             [success |-> TRUE, error |-> "None", allow_setup |-> FALSE]
      [] condition = "timeout" ->
             [success |-> FALSE, error |-> "timeout", allow_setup |-> TRUE]
      [] condition = "refused" ->
             [success |-> FALSE, error |-> "connection_refused",
              allow_setup |-> TRUE]
      [] condition = "oserror" ->
             [success |-> FALSE, error |-> "network_error",
              allow_setup |-> TRUE]
      [] OTHER ->
             [success |-> FALSE, error |-> "unknown", allow_setup |-> FALSE]

\* async_step_user with a user_input, lines 56-121.
AsyncStepUser ==
    \E host \in Hosts, condition \in Conditions :
      LET connect == _async_try_connect(condition) IN
      /\ IF host \in config_entries
         THEN \* _abort_if_unique_id_configured
              /\ call' = [op |-> "async_step_user", entry |-> host,
                          condition |-> condition, returned |-> "abort",
                          disconnected |-> FALSE]
              /\ UNCHANGED config_entries
         ELSE IF connect.success \/ connect.allow_setup
         THEN /\ call' = [op |-> "async_step_user", entry |-> host,
                          condition |-> condition,
                          returned |-> "create_entry",
                          disconnected |-> TRUE]
              /\ config_entries' = config_entries \cup {host}
         ELSE /\ call' = [op |-> "async_step_user", entry |-> host,
                          condition |-> condition, returned |-> "form",
                          disconnected |-> TRUE]
              /\ UNCHANGED config_entries
      /\ UNCHANGED <<hass_data, loaded, entities, hassFrame>>

\* _async_setup_receiver with _test_connection, lines 119-193: the
\* receiver, or the exception it re-raises.
_async_setup_receiver(condition) ==
    CASE condition = "ok" -> "receiver"
      [] condition = "timeout" -> "TimeoutError"
      [] condition \in {"refused", "oserror"} -> "OSError"
      [] OTHER -> "Exception"

\* What the two zone queries of _detect_zones_safe do: an answer, None,
\* or an exception.
ZoneQueries == {"answer", "none", "raise"}

\* A detection with both queries under one try: any exception gives
\* ["main"].
DetectZonesUnderOneTry(zone2_power, zone3_power) ==
    IF zone2_power = "raise" \/ zone3_power = "raise"
    THEN <<"main">>
    ELSE <<"main">> \o (IF zone2_power = "answer" THEN <<"zone2">> ELSE <<>>)
                    \o (IF zone3_power = "answer" THEN <<"zone3">> ELSE <<>>)

\* _detect_zones_safe, media_player.py lines 111-144: the list zones after
\* line 122, after the try of lines 125-130 and after the try of lines
\* 133-138. Nothing between lines 119 and 140 raises outside the two inner
\* try blocks, so the handler of lines 142-144 is not entered.
_detect_zones_safe(zone2_power, zone3_power) ==
    LET main_only == <<"main">>
        with_zone2 == IF zone2_power = "answer"
                      THEN Append(main_only, "zone2") ELSE main_only
        with_zone3 == IF zone3_power = "answer"
                      THEN Append(with_zone2, "zone3") ELSE with_zone2
    IN with_zone3

\* The platform's async_setup_entry, media_player.py lines 66-91: one
\* entity per detected zone, and the main zone when there is none.
ZonesOfEntities(zones_detected) ==
    IF zones_detected = <<>> THEN <<"main">> ELSE zones_detected

\* async_setup_entry, lines 52-116, with the media player platform's
\* async_setup_entry (media_player.py, lines 40-108) that
\* async_forward_entry_setups awaits. Home Assistant sets up an entry
\* that is not loaded.
AsyncSetupEntry ==
    \E entry \in config_entries \ loaded, condition \in Conditions,
       zone2_power \in ZoneQueries, zone3_power \in ZoneQueries :
      /\ condition # "ok" => (zone2_power = "raise" /\ zone3_power = "raise")
      /\ IF _async_setup_receiver(condition) = "Exception"
         THEN /\ call' = [op |-> "async_setup_entry", entry |-> entry,
                          condition |-> condition,
                          returned |-> "ConfigEntryNotReady",
                          disconnected |-> TRUE]
              /\ UNCHANGED <<hass_data, loaded, entities>>
         ELSE LET domain == IF HasKey(hass_data, DOMAIN_KEY)
                            THEN DictGet(hass_data, DOMAIN_KEY) ELSE {}
                  stored == [receiver |-> entry, host |-> entry]
                  zones_detected == _detect_zones_safe(zone2_power,
                                                       zone3_power)
              IN /\ hass_data' = DictSet(hass_data, DOMAIN_KEY,
                                         DictSet(domain, entry, stored))
                 /\ entities' = entities \cup
                        {<<entry, ZonesOfEntities(zones_detected)[i]>> :
                            i \in DOMAIN ZonesOfEntities(zones_detected)}
                 /\ loaded' = loaded \cup {entry}
                 /\ call' = [op |-> "async_setup_entry", entry |-> entry,
                             condition |-> condition, returned |-> "True",
                             disconnected |-> (condition # "ok"),
                             zone_queries |-> <<zone2_power, zone3_power>>,
                             zones |-> zones_detected]
      /\ UNCHANGED <<config_entries, hassFrame>>

\* An unload that leaves the emptied dict of the domain in hass.data.
KeepDomain(d) == d

\* "if not hass.data[DOMAIN]: hass.data.pop(DOMAIN)", lines 225-226.
PopDomainIfEmpty(d) ==
    IF DictGet(d, DOMAIN_KEY) = {} THEN DictPop(d, DOMAIN_KEY) ELSE d

\* async_unload_entry, lines 196-230, of a loaded entry: the platforms
\* unload or not, and receiver.disconnect returns or raises.
AsyncUnloadEntry ==
    /\ UNCHANGED hassFrame
    /\ \E entry \in loaded, unload_ok \in BOOLEAN,
          disconnect_raises \in BOOLEAN :
      IF ~unload_ok
      THEN /\ call' = [op |-> "async_unload_entry", entry |-> entry,
                       condition |-> "None", returned |-> "False",
                       disconnected |-> FALSE]
           /\ UNCHANGED <<config_entries, hass_data, loaded, entities>>
      ELSE IF ~HasKey(hass_data, DOMAIN_KEY)
      THEN /\ call' = [op |-> "async_unload_entry", entry |-> entry,
                       condition |-> "None", returned |-> "KeyError",
                       disconnected |-> FALSE]
           /\ entities' = {e \in entities : e[1] # entry}
           /\ UNCHANGED <<config_entries, hass_data, loaded>>
      ELSE LET domain == DictGet(hass_data, DOMAIN_KEY)
               found == HasKey(domain, entry)
               popped == IF found THEN DictPop(domain, entry) ELSE domain
           IN /\ hass_data' =
                     PopDomainIfEmpty(DictSet(hass_data, DOMAIN_KEY, popped))
              /\ call' = [op |-> "async_unload_entry", entry |-> entry,
                          condition |-> IF disconnect_raises THEN "error"
                                        ELSE "ok",
                          returned |-> "True", disconnected |-> found]
              /\ entities' = {e \in entities : e[1] # entry}
              /\ loaded' = loaded \ {entry}
              /\ UNCHANGED config_entries

InitHass ==
    /\ SessionInit
    /\ receiver = "ok"
    /\ VolumeIdle
    /\ PollIdle
    /\ EntityIdle
    /\ IntegrationIdle

NextHass ==
    \/ AsyncStepUser
    \/ AsyncSetupEntry
    \/ AsyncUnloadEntry

SpecHass == InitHass /\ [][NextHass]_vars

\* ================================================== async_migrate_entry
\* onkyo/__init__.py, lines 245-279.
MaxMigrations == 2

\* const.py, lines 9, 10, 16 and 17.
CONF_RECEIVER_MAX_VOLUME == "receiver_max_volume"
CONF_VOLUME_RESOLUTION == "volume_resolution"
DEFAULT_RECEIVER_MAX_VOLUME == 100
DEFAULT_VOLUME_RESOLUTION == 80

\* An assignment new_data[key] = default made whatever new_data holds.
Assigned(new_data, key, default) == DictSet(new_data, key, default)

\* Lines 262-268: "if key not in new_data: new_data[key] = default".
WithDefault(new_data, key, default) ==
    IF HasKey(new_data, key)
    THEN new_data
    ELSE new_data \cup {<<key, default>>}

\* Lines 258-279: the entry that hass.config_entries.async_update_entry
\* leaves (data=new_data, version=2; line 259 copies entry.data), or the
\* entry untouched, and the value returned.
async_migrate_entry(entry) ==
    IF entry.version = 1
    THEN [entry |->
             [version |-> 2,
              data |-> WithDefault(
                           WithDefault(entry.data, CONF_RECEIVER_MAX_VOLUME,
                                       DEFAULT_RECEIVER_MAX_VOLUME),
                           CONF_VOLUME_RESOLUTION,
                           DEFAULT_VOLUME_RESOLUTION)],
          returns |-> "True"]
    ELSE [entry |-> entry, returns |-> "True"]

\* The data of stored entries: a host, and a name, a receiver maximum and
\* a resolution each of which an entry may lack.
OptionalItems(key, values) == {{}} \cup {{<<key, v>>} : v \in values}

StoredData ==
    { {<<"host", h>>} \cup name \cup receiver_max \cup resolution :
        h \in Hosts,
        name \in OptionalItems("name", {"Onkyo Receiver"}),
        receiver_max \in OptionalItems(CONF_RECEIVER_MAX_VOLUME, {80, 100}),
        resolution \in OptionalItems(CONF_VOLUME_RESOLUTION, {50, 80}) }

StoredEntries == [version : {1, 2, 3}, data : StoredData]

InitMigrate ==
    /\ SessionInit
    /\ receiver = "ok"
    /\ VolumeIdle
    /\ PollIdle
    /\ EntityIdle
    /\ HelperIdle
    /\ FlowIdle
    /\ HassIdle
    /\ stored_entry \in StoredEntries
    /\ config_entry = stored_entry
    /\ migrations = 0
    /\ migrate_result = "None"

\* Home Assistant calls async_migrate_entry on the entry.
AsyncMigrateEntry ==
    /\ migrations < MaxMigrations
    /\ config_entry' = async_migrate_entry(config_entry).entry
    /\ migrate_result' = async_migrate_entry(config_entry).returns
    /\ migrations' = migrations + 1
    /\ UNCHANGED <<sessionOnly, volVars, pollVars, entVars, helperVars,
                   flowVars, hassVars, stored_entry>>

NextMigrate == AsyncMigrateEntry

SpecMigrate == InitMigrate /\ [][NextMigrate]_vars

\* ------------------------------------------------------- reachable code
\* No session ever leaves the state its constructor built: the flag stays
\* unassigned and the session disconnected, so no call reaches the branches
\* "reconnect" (line 46), "not_connected" (lines 48-51) or "command"
\* (lines 53-57) of ConnectionCheck, and lines 74-107 never run.
SessionStaysAsConstructed ==
    /\ \A z \in Zones : /\ _is_connecting[z] = Undefined
                        /\ ~_is_connected[z]
                        /\ _last_command_time[z] = 0
                        /\ _reconnect_attempt[z] = 0
    /\ \A t \in Tasks : pc[t] \notin {"reconnect", "not_connected", "command"}

\* Every finished call of async_send_command has returned None.
EverySendReturnsNone ==
    \A t \in Tasks : pc[t] = "returned" => result[t] = "None"

\* ---------------------------------------------------------------- claims

\* C3: async_send_command never raises for the expected network conditions
\* (timeout, connection refused, OSError): a call made while the receiver
\* is in one of these conditions returns None and leaves the session
\* marked connected = false.
C3_NeverRaisesOnNetworkFailure ==
    \A t \in Tasks :
        pc[t] = "returned" =>
            /\ result[t] # "raised"
            /\ during[t] \in NetworkFailures =>
                   /\ result[t] = "None"
                   /\ ~_is_connected[Manager(t)]

\* C3, its case: a call has returned None over each of the three network
\* failures (one task per condition suffices to name the state).
C3_Witness ==
    \E t \in Tasks :
        /\ pc[t] = "returned"
        /\ during[t] = "refused"
        /\ result[t] = "None"
        /\ ~_is_connected[Manager(t)]
        /\ \E u \in Tasks \ {t} :
               /\ pc[u] = "returned"
               /\ during[u] = "timeout"
               /\ result[u] = "None"

\* C4: on a freshly constructed session (no send has failed on it yet, it
\* has not been closed), an async_send_command made while the receiver
\* answers reconnects: it returns the receiver's reply, not None, and
\* leaves the session connected.
C4_FreshSessionConnects ==
    \A t \in Tasks :
        ( /\ pc[t] = "returned"
          /\ during[t] = "ok"
          /\ ~priorFailure[t]
          /\ ~closed[Manager(t)] ) =>
            /\ result[t] = "reply"
            /\ _is_connected[Manager(t)]

\* C6: after a send has failed, the next async_send_command reconnects and
\* succeeds if the receiver now answers.
C6_NextSendRecovers ==
    \A t \in Tasks :
        ( /\ pc[t] = "returned"
          /\ priorFailure[t]
          /\ during[t] = "ok"
          /\ ~closed[Manager(t)] ) =>
            result[t] = "reply"

\* ------------------------------------------------------ claims: volume
\* The inputs the round-trip property is stated for.
RoundTripVolumes == {0, 25, 50, 77, 100}
RoundTripCeilings == {100, 80, 50}
RoundTripResolutions == {50, 80, 100, 200}

\* A forward conversion followed by the backward conversion of the same
\* pair, on one of the listed inputs.
RoundTripDone ==
    /\ applied \in {<<"_ha_volume_to_receiver", "_receiver_volume_to_ha">>,
                    <<"calculate_volume", "calculate_ha_volume">>}
    /\ ha_volume \in RoundTripVolumes
    /\ max_volume \in RoundTripCeilings
    /\ volume_resolution \in RoundTripResolutions

\* |ha_result - ha_volume / 100| * tolDen <= tolNum
WithinOfInput(tolNum, tolDen) ==
    LET p == ha_result[1]
        q == ha_result[2]
        diff == 100 * p - ha_volume * q
        abs == IF diff >= 0 THEN diff ELSE -diff
    IN abs * tolDen <= tolNum * 100 * q

\* C16, as stated: for v in {0.0, 0.25, 0.5, 0.77, 1.0}, maxPercent in
\* {100, 80, 50} and resolution in {50, 80, 100, 200}, converting v to the
\* device scale and back gives a value within 1 / resolution of v.
C16_RoundTripWithinResolution ==
    RoundTripDone => WithinOfInput(1, volume_resolution)

\* C16, amended: on the same inputs the round trip gives a value within
\* one device step of the scaled range, 100 / (maxPercent * resolution),
\* of v.
C16_RoundTripWithinDeviceStep ==
    RoundTripDone => WithinOfInput(100, max_volume * volume_resolution)

\* C16, its case: 0.77 at ceiling 50 and resolution 80 has gone to device
\* value 30 and come back as 0.75, which is 0.02 from 0.77 while
\* 1 / resolution is 0.0125.
C16_Witness ==
    /\ RoundTripDone
    /\ ha_volume = 77
    /\ max_volume = 50
    /\ volume_resolution = 80
    /\ receiver_volume = 30
    /\ Leq(ha_result, <<3, 4>>)
    /\ Leq(<<3, 4>>, ha_result)
    /\ ~WithinOfInput(1, volume_resolution)

\* C17: for any device value in 0..resolution and any ceiling in 1..100,
\* every normalized volume computed from it (the entity's volume level
\* and the result of calculate_ha_volume) lies in [0, 1].
C17_NormalizedVolumeInUnitInterval ==
    ha_result # NoResult => /\ Leq(Zero, ha_result)
                            /\ Leq(ha_result, One)

InSeq(x, seq) == \E k \in 1..Len(seq) : seq[k] = x

\* The queries that follow the power query of a zone.
MainFollowUps ==
    {"volume query", "audio-muting query", "input-selector query",
     "preset query", "listening-mode query", "hdmi-output-selector query",
     "audio-information query", "video-information query"}
ZoneFollowUps ==
    {"zone2.volume=query", "zone2.muting=query", "zone2.selector=query",
     "zone2.preset=query"}

\* The power query of a zone has been issued and answered standby.
AnsweredStandby(cmd) ==
    /\ InSeq(cmd, issued)
    /\ raisesOn # cmd
    /\ Command(cmd) = StrReply("standby")

\* C11: in a poll cycle, if the power query of a zone answers standby the
\* zone is recorded as off and no further query is issued for that zone in
\* that cycle; follow-up queries are issued only when the power query
\* answers on.
C11_StandbyShortCircuit ==
    /\ AnsweredStandby("system-power query") =>
           /\ \A q \in MainFollowUps : ~InSeq(q, issued)
           /\ "main" \in DOMAIN data
           /\ data["main"]["pwstate"] = "off"
    /\ AnsweredStandby("zone2.power=query") =>
           /\ \A q \in ZoneFollowUps : ~InSeq(q, issued)
           /\ "zone2" \in DOMAIN data
           /\ data["zone2"]["pwstate"] = "off"
    /\ (\E q \in MainFollowUps : InSeq(q, issued)) =>
           Command("system-power query") = StrReply("on")
    /\ (\E q \in ZoneFollowUps : InSeq(q, issued)) =>
           Command("zone2.power=query") = StrReply("on")

\* C11, its case: a cycle has returned in which the main zone answered
\* standby and was recorded off with no follow-up, while zone 2 answered
\* on and got its follow-up queries.
C11_Witness ==
    /\ pollPc = "returned"
    /\ AnsweredStandby("system-power query")
    /\ returned["main"]["pwstate"] = "off"
    /\ issued = <<"system-power query", "zone2.power=query",
                  "zone2.volume=query", "zone2.muting=query",
                  "zone2.selector=query", "zone2.preset=query">>

\* A query answered "not available" or not at all.
Unanswered(r) == ~Truthy(r) \/ r = StrReply("N/A")

\* The follow-up fields of the main zone, and where the snapshot of the
\* main zone holds each of them.
MainFields ==
    {"volume", "mute", "source", "preset", "listening_mode", "hdmi",
     "audio", "video"}

InSnapshot(field, snapshot) ==
    CASE field = "volume" -> "volume" \in DOMAIN snapshot
      [] field = "mute" -> "muted" \in DOMAIN snapshot
      [] field = "source" -> "current_source" \in DOMAIN snapshot
      [] field = "listening_mode" -> "sound_mode" \in DOMAIN snapshot
      [] field = "preset" ->
             \/ "current_source" \notin DOMAIN snapshot
             \/ Lower(snapshot["current_source"]) # "radio"
             \/ /\ "attributes" \in DOMAIN snapshot
                /\ "preset" \in DOMAIN snapshot["attributes"]
      [] field = "hdmi" ->
             /\ "attributes" \in DOMAIN snapshot
             /\ "hdmi_output" \in DOMAIN snapshot["attributes"]
      [] field = "audio" ->
             /\ "attributes" \in DOMAIN snapshot
             /\ "audio_information" \in DOMAIN snapshot["attributes"]
      [] field = "video" ->
             /\ "attributes" \in DOMAIN snapshot
             /\ "video_information" \in DOMAIN snapshot["attributes"]

\* C12: in a poll cycle of a powered-on zone in which no command raises
\* and a single follow-up query is answered not-available or empty, the
\* poll is not aborted and the snapshot holds the power state and every
\* field whose query was answered (the preset where the source is radio).
C12_UnsupportedQueryResilience ==
    ( /\ pollPc \notin {"unscheduled", "refresh"}
      /\ raisesOn = None
      /\ Command("system-power query") = StrReply("on")
      /\ Cardinality({f \in MainFields : Unanswered(replies[f])}) = 1 ) =>
        /\ ~(pollPc = "UpdateFailed" /\ zonesFound = None)
        /\ "main" \in DOMAIN data
        /\ data["main"]["pwstate"] = "on"
        /\ \A f \in MainFields :
               ~Unanswered(replies[f]) => InSnapshot(f, data["main"])

\* The codes a selector reply carries, in the device's order.
DeviceCodes(r) == IF r.kind = "str" THEN <<r.value>> ELSE r.value

\* The label the claim gives a reply: the table's label of the first code
\* that is a key of the table, the codes joined by underscore otherwise.
Known(codes) == {i \in 1..Len(codes) : codes[i] \in DOMAIN sources}
ExpectedSource(codes) ==
    IF Known(codes) # {}
    THEN sources[codes[CHOOSE i \in Known(codes) :
                           \A j \in Known(codes) : i <= j]]
    ELSE IF Len(codes) = 1 THEN codes[1]
    ELSE Join(codes, "_")

\* C15: in the poller, for the main and the secondary zones, if any code
\* returned by the device is a key of the source table the resolved source
\* is the table's label of the first such code; otherwise it is the raw
\* codes joined by underscore (a single unknown code resolves to itself);
\* and the resolution raises no exception.
C15_SourceResolution ==
    /\ \A z \in {"main", "zone2"} :
           (z \in DOMAIN data /\ "current_source" \in DOMAIN data[z]) =>
               data[z]["current_source"] =
                   ExpectedSource(DeviceCodes(replies.source))
    /\ Command("system-power query") = StrReply("on") =>
           FetchData.raised # "UnboundLocalError"
    /\ Command("zone2.power=query") = StrReply("on") =>
           FetchDataZone.raised # "UnboundLocalError"

\* The returned snapshot of a zone holds the label as its source.
ResolvedAs(z, label) ==
    /\ z \in DOMAIN returned
    /\ "current_source" \in DOMAIN returned[z]
    /\ returned[z]["current_source"] = label

\* C15, its case: the device has returned the codes (video2, cbl, sat),
\* only the second of which is in the table, and both zones resolved it
\* to that code's label; a cycle with unknown codes gave them joined.
C15_Witness ==
    /\ pollPc = "returned"
    /\ \/ /\ replies.source = TupleReply(<<"video2", "cbl", "sat">>)
          /\ ResolvedAs("main", "Cable")
          /\ ResolvedAs("zone2", "Cable")
       \/ /\ replies.source = TupleReply(<<"net", "network">>)
          /\ ResolvedAs("main", "net_network")
          /\ ResolvedAs("zone2", "net_network")

\* ----------------------------------------------------- claims: pollers
\* The entity's last operation was a poll whose power query failed.
PollFailed ==
    /\ lastOp.name = "async_update"
    /\ ~ResultTruthy(async_send_command(PowerQuery))

\* An entity that reports its own flag whatever the session's.
AvailableWhateverTheSession == _attr_available

\* The "available" property, lines 710-717.
available == _attr_available /\ _is_connected[_zone]

\* An exception has been raised inside the try block of
\* _async_update_data: by a command or a computation of the main fetch,
\* by _determine_zones, or by the fetch of zone 2.
RefreshRaised ==
    \/ /\ pollPc \notin {"unscheduled", "refresh"}
       /\ Raises(MainCommands) \/ FetchData.raised # None
    \/ zonesFound = "HomeAssistantError"
    \/ /\ zonesFound = "zone2"
       /\ pollPc # "fetch_zone"
       /\ Raises(ZoneCommands) \/ FetchDataZone.raised # None

\* C13: an I/O failure during a poll never crashes the poller:
\* async_update does not raise and leaves the entity unavailable for that
\* cycle; _async_update_data turns every exception into UpdateFailed and
\* returns no snapshot, not even a partial one.
C13_PollFailureIsContained ==
    /\ PollFailed => /\ ~lastOp.raised
                     /\ ~_attr_available
                     /\ ~available
    /\ RefreshRaised => /\ pollPc = "UpdateFailed"
                        /\ returned = <<>>
    /\ pollPc = "returned" => ~RefreshRaised

\* C13, its case: the main zone had been fetched into the snapshot when
\* the volume query of zone 2 raised; the refresh ended in UpdateFailed
\* and returned nothing.
C13_Witness ==
    /\ pollPc = "UpdateFailed"
    /\ zonesFound = "zone2"
    /\ InSeq("zone2.volume=query", issued)
    /\ raisesOn = "zone2.volume=query"
    /\ "main" \in DOMAIN data
    /\ "pwstate" \in DOMAIN data["main"]
    /\ returned = <<>>

\* The entity's side of the same case: a poll over a timing-out network
\* has ended without raising and left the entity unavailable.
EntityPollFailedCase ==
    /\ PollFailed
    /\ receiver = "timeout"
    /\ _attr_state = "on"
    /\ ~_attr_available

\* C14: a poll that fails (its power query fails or yields neither on nor
\* standby) leaves the entity's power state, volume level, mute flag,
\* source, source list and listening modes as they were; it changes at
\* most the availability flag.
C14_FailedPollKeepsSnapshot ==
    [][ ( /\ lastOp'.name = "async_update"
          /\ ~ResultTruthy(async_send_command(PowerQuery)) ) =>
            UNCHANGED <<_attr_state, _attr_volume_level,
                        _attr_is_volume_muted, _attr_source,
                        _attr_source_list, _listening_modes>> ]_vars

\* C14, its case: the entity had been turned on, set to volume 0.77, muted
\* and switched to a source, and was available, when a poll failed: the
\* poll took the availability away and nothing else.
C14_Witness ==
    /\ PollFailed
    /\ ~_attr_available
    /\ _attr_state = "on"
    /\ _attr_volume_level = <<77, 100>>
    /\ _attr_is_volume_muted
    /\ _attr_source = "cbl"

\* Two fractions are the same number.
SameNumber(a, b) == Leq(a, b) /\ Leq(b, a)

\* C18: after a volume query made while the receiver answers, and answers
\* device value d, the entity's volume level is
\* clamp((d / resolution) / (maxPercent / 100), 0, 1); e.g. 42 at 80 / 80
\* gives 0.65625.
C18_VolumeQueryEndToEnd ==
    ( /\ lastOp.name = "async_volume_step"
      /\ InSeq(VolumeQuery, sent)
      /\ receiver = "ok" ) =>
        /\ _attr_volume_level # NoResult
        /\ SameNumber(_attr_volume_level,
                      Clamp(<<device.volume * 100,
                              volume_resolution * max_volume>>))

\* C20: if the power-on command of async_turn_on is not delivered to the
\* receiver (its send returns None), async_turn_on raises to its caller
\* instead of completing normally with the state set to ON.
C20_TurnOnRaisesWhenUndelivered ==
    ( /\ lastOp.name = "async_turn_on"
      /\ ~ResultTruthy(async_send_command(
              ZoneCommand(_zone, "system-power=on", "power=on"))) ) =>
        /\ lastOp.raised
        /\ _attr_state # "on"

\* ------------------------------------------------ the user's commands
\* The commands C21 names.
PlainCommands ==
    {"async_turn_off", "async_set_volume_level", "async_mute_volume",
     "async_select_source", "async_select_hdmi_output"}

\* C21: a command whose send returns None is a no-op: async_turn_off,
\* async_set_volume_level, async_mute_volume, async_select_source and
\* async_select_hdmi_output do not raise and leave the power state, the
\* volume level, the mute flag, the source and the attributes as they
\* were.
C21_FailedCommandIsNoOp ==
    [][ ( /\ lastOp'.name \in PlainCommands
          /\ \A i \in 1..Len(sent') :
               ~ResultTruthy(async_send_command(sent'[i])) ) =>
            /\ ~lastOp'.raised
            /\ UNCHANGED <<_attr_state, _attr_volume_level,
                           _attr_is_volume_muted, _attr_source,
                           _attr_extra_state_attributes>> ]_vars

\* C24: async_select_hdmi_output sends an hdmi-output-selector command
\* and records the value in the hdmi_output attribute only when the
\* entity is the main zone and the value is one of HDMI_OUTPUT_OPTIONS;
\* otherwise nothing is sent and the attributes are unchanged.
C24_HdmiOutputOnlyMainAndListed ==
    [][ ( /\ lastOp'.name = "async_select_hdmi_output"
          /\ \/ sent' # <<>>
             \/ _attr_extra_state_attributes' # _attr_extra_state_attributes )
        => /\ _zone = "main"
           /\ \E hdmi_output \in HDMI_OUTPUT_OPTIONS :
                /\ sent' = <<"hdmi-output-selector=" \o hdmi_output>>
                /\ _attr_extra_state_attributes' =
                       DictSet(_attr_extra_state_attributes, "hdmi_output",
                               hdmi_output) ]_vars

\* The spellings of "radio" among the media types.
RadioSpellings == {"radio", "Radio", "RADIO"}

\* C25: async_play_media sends a preset command only when the media type
\* is radio in any letter case, and then the source-select command for
\* radio comes strictly before the preset command; for any other media
\* type no command is sent and the source is unchanged.
C25_PresetOnlyForRadioAfterSourceSelect ==
    [][ lastOp'.name = "async_play_media" =>
          /\ \A j \in 1..Len(sent') :
               (\E media_id \in MediaIds : sent'[j] = PresetCommand(media_id))
                 => /\ lastOp'.media_type \in RadioSpellings
                    /\ \E i \in 1..(j - 1) :
                         sent'[i] = SelectSourceCommand("radio")
          /\ lastOp'.media_type \in RadioSpellings =>
               /\ sent' # <<>>
               /\ sent'[1] = SelectSourceCommand("radio")
          /\ lastOp'.media_type \notin RadioSpellings =>
               /\ sent' = <<>>
               /\ UNCHANGED _attr_source ]_vars

C25_Witness ==
    /\ lastOp.name = "async_play_media"
    /\ lastOp.media_type = "RADIO"
    /\ _zone = "zone2"
    /\ sent = <<"zone2.selector=radio", "zone2.preset=5">>
    /\ _attr_source = "radio"

\* The fields of the entity a push update may name.
PushFields ==
    <<_attr_state, _attr_available, _attr_volume_level,
      _attr_is_volume_muted, _attr_source>>

\* C28: _handle_receiver_update for another zone changes nothing and
\* writes no state; for the entity's own zone it changes only the field
\* the command names: power the state and the availability, volume the
\* volume level, muting the mute flag, input-selector and selector the
\* source.
C28_PushUpdateZoneIsolation ==
    [][ lastOp'.name = "_handle_receiver_update" =>
          /\ UNCHANGED <<_attr_source_list, _listening_modes,
                         _attr_extra_state_attributes>>
          /\ IF lastOp'.zone # _zone
             THEN /\ UNCHANGED PushFields
                  /\ ~lastOp'.wrote
             ELSE CASE lastOp'.command = "power" ->
                         UNCHANGED <<_attr_volume_level,
                                     _attr_is_volume_muted, _attr_source>>
                    [] lastOp'.command = "volume" ->
                         UNCHANGED <<_attr_state, _attr_available,
                                     _attr_is_volume_muted, _attr_source>>
                    [] lastOp'.command = "muting" ->
                         UNCHANGED <<_attr_state, _attr_available,
                                     _attr_volume_level, _attr_source>>
                    [] lastOp'.command \in {"input-selector", "selector"} ->
                         UNCHANGED <<_attr_state, _attr_available,
                                     _attr_volume_level,
                                     _attr_is_volume_muted>>
                    [] OTHER -> UNCHANGED PushFields ]_vars

C28_Witness ==
    /\ lastOp.name = "_handle_receiver_update"
    /\ lastOp.zone = "zone2"
    /\ lastOp.command = "volume"
    /\ _zone = "main"
    /\ ~lastOp.wrote
    /\ _attr_volume_level = <<77, 100>>
    /\ _attr_source = "dvd"

FlagSetWithoutReport == _attr_available /\ ~power_reported

\* A step of a poll: the entity's async_update, or a step of the
\* coordinator's refresh.
PollStep ==
    \/ lastOp'.name = "async_update"
    \/ pollPc' # pollPc

ControlValues == {"up", "down", "query"}
PagingCodes == {"07", "08", "09"}

\* The entries of a table whose code is in a selection.
Picked(table, selection) ==
    { item \in table : \E i \in 1..Len(selection) : selection[i] = item[1] }

\* C27: the built source table never holds a control pseudo-value (up,
\* down, query) or a paging code (07, 08, 09), and the built sound-mode
\* table never holds a control pseudo-value; build_selected_dict returns
\* exactly the entries of the built table whose code is in the selection,
\* labels unchanged: of the source table when sources are given, else of
\* the sound-mode table when sounds are given, else the empty dict.
C27_BuiltTablesAndSelection ==
    /\ helper = "build_sources_list" =>
         \A item \in helper_result :
           item[1] \notin ControlValues \cup PagingCodes
    /\ helper = "build_sounds_mode_list" =>
         \A item \in helper_result : item[1] \notin ControlValues
    /\ helper = "build_selected_dict" =>
         helper_result =
           IF selected_sources.list # <<>>
           THEN Picked(build_sources_list, selected_sources.list)
           ELSE IF selected_sounds.list # <<>>
           THEN Picked(build_sounds_mode_list, selected_sounds.list)
           ELSE {}

C27_Witness ==
    /\ helper = "build_selected_dict"
    /\ selected_sources = ListGiven(<<"video1", "07", "tuner">>)
    /\ selected_sounds = ListGiven(<<"stereo">>)
    /\ helper_result = {<<"video1", "VIDEO1">>, <<"tuner", "TUNER">>}

\* ------------------------------------------------------ configuration
\* The volume ceilings of a submission are in range.
CeilingsInRange(input) ==
    /\ input.max_volume >= 1
    /\ input.max_volume <= 100
    /\ input.receiver_max_volume >= 1
    /\ input.receiver_max_volume <= 200

\* C23: a submission of the options form whose max-volume percentage is
\* outside 1..100 or whose receiver max volume is outside 1..200 produces
\* an error and saves no options; a submission in range is saved
\* unchanged.
C23_OptionsCeilingsValidated ==
    [][ (form_shown /\ <<flow_result, user_input>>' # <<flow_result, user_input>>)
        =>
          /\ ~CeilingsInRange(user_input') =>
               /\ flow_result'.type # "create_entry"
               /\ \/ flow_result'.type = "invalid_data"
                  \/ flow_result'.errors # {}
               /\ UNCHANGED entry_options
          /\ ( /\ CeilingsInRange(user_input')
               /\ user_input'.volume_resolution \in {50, 80, 100, 200} ) =>
               /\ flow_result'.type = "create_entry"
               /\ entry_options' = user_input' ]_vars

C23_Witness ==
    /\ flow_result.type = "invalid_data"
    /\ user_input = VolumeOptions(100, 80, 101)
    /\ entry_options = VolumeOptions(200, 200, 50)
    /\ form_shown

\* ----------------------------------------------------------- lifecycle
\* The transient connection failures: a timeout, a refused connection,
\* another OSError.
Transient == {"timeout", "refused", "oserror"}

\* C22: a transient connection failure never prevents loading: the
\* config flow still creates the entry, async_setup_entry stores the
\* receiver and returns True without raising ConfigEntryNotReady, and
\* the media player platform creates at least the main zone's entity.
C22_TransientFailureStillLoads ==
    /\ ( /\ call.op = "async_step_user"
         /\ call.condition \in Transient
         /\ call.returned # "abort" ) =>
           /\ call.returned = "create_entry"
           /\ call.entry \in config_entries
    /\ ( /\ call.op = "async_setup_entry"
         /\ call.condition \in Transient ) =>
           /\ call.returned = "True"
           /\ call.entry \in loaded
           /\ \E domain \in hass_data :
                /\ domain[1] = "onkyo"
                /\ \E item \in domain[2] :
                     /\ item[1] = call.entry
                     /\ item[2].receiver = call.entry
           /\ <<call.entry, "main">> \in entities

C22_Witness ==
    /\ call.op = "async_setup_entry"
    /\ call.condition = "refused"
    /\ call.entry = "h2"
    /\ call.returned = "True"
    /\ config_entries = {"h1", "h2"}
    /\ loaded = {"h2"}
    /\ entities = {<<"h2", "main">>}

\* The keys of a dict kept as its set of items.
Keys(d) == {item[1] : item \in d}

\* hass.data[DOMAIN] holds exactly the loaded entries, and hass.data has
\* no DOMAIN key when none is loaded.
DataHoldsLoaded ==
    IF loaded = {} THEN hass_data = {}
    ELSE /\ Keys(hass_data) = {"onkyo"}
         /\ \A domain \in hass_data : Keys(domain[2]) = loaded

\* C30: after any sequence of async_setup_entry and async_unload_entry
\* calls hass.data[DOMAIN] holds exactly the loaded entries, and the
\* DOMAIN key is removed when none remain; a successful unload attempts
\* a receiver disconnect and removes the entry even if the disconnect
\* raises; an unload whose platform unload fails returns False,
\* disconnects nothing and leaves hass.data unchanged.
C30_DataFollowsLoadedEntries ==
    /\ []DataHoldsLoaded
    /\ [][ call'.op = "async_unload_entry" =>
             /\ call'.returned \in {"True", "False"}
             /\ call'.returned = "True" =>
                  /\ call'.disconnected
                  /\ call'.entry \notin loaded'
                  /\ \A domain \in hass_data' :
                       call'.entry \notin Keys(domain[2])
             /\ call'.returned = "False" =>
                  /\ ~call'.disconnected
                  /\ UNCHANGED <<hass_data, loaded>> ]_vars

C30_Witness ==
    /\ call.op = "async_unload_entry"
    /\ call.returned = "True"
    /\ call.condition = "error"
    /\ call.entry = "h1"
    /\ loaded = {"h2"}
    /\ Keys(hass_data) = {"onkyo"}

\* ---------------------------------------------------------------- C32
\* The value the comment on lines 133 and 200 of coordinator.py states,
\* raw / receiver_max_volume * (max_volume / 100), as a fraction.
StatedVolume(raw) == <<raw * max_volume, receiver_max_volume * 100>>

HasVolume(z) ==
    /\ z \in DOMAIN returned
    /\ "volume" \in DOMAIN returned[z]

\* C32: in a returned snapshot, the volume of the main zone and the volume
\* of a secondary zone are both the raw volume divided by
\* receiver_max_volume and multiplied by max_volume / 100, so the two are
\* the same number (both zones were answered with the same raw volume).
C32_SameVolumeInEveryZone ==
    (pollPc = "returned" /\ replies.volume.kind = "int") =>
        /\ HasVolume("main") =>
               SameNumber(returned["main"]["volume"],
                          StatedVolume(replies.volume.value))
        /\ HasVolume("zone2") =>
               SameNumber(returned["zone2"]["volume"],
                          StatedVolume(replies.volume.value))
        /\ (HasVolume("main") /\ HasVolume("zone2")) =>
               SameNumber(returned["main"]["volume"],
                          returned["zone2"]["volume"])

\* ---------------------------------------------------------------- C35
\* C35: whenever no task holds the lock of a session, the session's
\* _is_connecting is defined and false.
C35_ConnectingClearWhenLockFree ==
    \A z \in Zones :
        lockHolder[z] = NoTask =>
            /\ _is_connecting[z] # Undefined
            /\ ~_is_connecting[z]

\* ---------------------------------------------------------------- C34
\* A step of task t from one position of async_send_command to another.
Moves(t, from, to) == pc[t] = from /\ pc'[t] = to

\* C34: in every step, a session's _is_connected goes from false to true
\* only while one of its tasks is inside _async_reconnect; a task that
\* leaves the command branch leaves the flag as it was; a task that leaves
\* an exception handler, and async_close, leave the flag false.
C34_ConnectedFlagWriters ==
    [][\A z \in Zones :
         /\ (~_is_connected[z] /\ _is_connected'[z]) =>
                \E t \in Tasks : Manager(t) = z /\ pc[t] = "reconnect"
         /\ \A t \in Tasks :
                Manager(t) = z =>
                    /\ Moves(t, "command", "exit") =>
                           _is_connected'[z] = _is_connected[z]
                    /\ Moves(t, "except_other", "exit") =>
                           ~_is_connected'[z]
         /\ (~closed[z] /\ closed'[z]) => ~_is_connected'[z]]_vars

\* C34, its case: a send has gone through the exception handler and holds
\* None while its session is closed, and the session's flag is false.
C34_Witness ==
    \E t \in Tasks :
        /\ pc[t] = "exit"
        /\ result[t] = "None"
        /\ closed[Manager(t)]
        /\ ~_is_connected[Manager(t)]

\* ---------------------------------------------------------------- C36
\* The call of task t has returned a reply or None and t does not hold
\* the lock.
Returned(t) ==
    /\ pc[t] = "returned"
    /\ result[t] \in {"reply", "None"}
    /\ lockHolder[Manager(t)] # t

\* C36: under the event loop's scheduling, every call of
\* async_send_command eventually returns a reply or None without the lock,
\* every caller queued on the lock eventually owns it, and no task that is
\* outside the call holds the lock.
C36_NoDeadlockNoStarvation ==
    /\ \A t \in Tasks : (pc[t] = "acquire") ~> Returned(t)
    /\ \A t \in Tasks : (pc[t] = "wait_lock") ~> (lockHolder[Manager(t)] = t)
    /\ [](\A t \in Tasks :
              pc[t] \in {"idle", "returned"} => lockHolder[Manager(t)] # t)

\* C36, its case: a call is on its way out with None, still holding the
\* lock, while the other caller of the same session is queued on the lock.
C36_Witness ==
    /\ pc["user_main"] = "exit"
    /\ result["user_main"] = "None"
    /\ lockHolder["main"] = "user_main"
    /\ pc["poll_main"] = "wait_lock"
    /\ lockWaiters["main"] = <<"poll_main">>

\* ---------------------------------------------------------------- C31
\* A dict holds one value for a key.
OneValuePerKey(d) ==
    \A a \in d : \A b \in d : a[1] = b[1] => a = b

\* C31: once async_migrate_entry has run it has returned True; an entry
\* stored with version 1 has version 2 and data that holds
\* receiver_max_volume and volume_resolution and every stored item with its
\* stored value; an entry stored with version 2 or later is as it was
\* stored; and a migration after the first changes nothing.
C31_MigrationAddsDefaultsOnly ==
    /\ [](migrations >= 1 =>
            /\ migrate_result = "True"
            /\ stored_entry.version = 1 =>
                   /\ config_entry.version = 2
                   /\ HasKey(config_entry.data, CONF_RECEIVER_MAX_VOLUME)
                   /\ HasKey(config_entry.data, CONF_VOLUME_RESOLUTION)
                   /\ stored_entry.data \subseteq config_entry.data
                   /\ OneValuePerKey(config_entry.data)
            /\ stored_entry.version >= 2 => config_entry = stored_entry)
    /\ [][migrations >= 1 => config_entry' = config_entry]_vars

\* C31, its case: a version-1 entry stored with a receiver maximum of 80
\* and no resolution has been migrated twice; it keeps the 80 and has the
\* default resolution.
C31_Witness ==
    /\ migrations = 2
    /\ stored_entry.version = 1
    /\ <<CONF_RECEIVER_MAX_VOLUME, 80>> \in stored_entry.data
    /\ ~HasKey(stored_entry.data, CONF_VOLUME_RESOLUTION)
    /\ <<CONF_RECEIVER_MAX_VOLUME, 80>> \in config_entry.data
    /\ <<CONF_VOLUME_RESOLUTION, DEFAULT_VOLUME_RESOLUTION>> \in config_entry.data

\* ---------------------------------------------------------------- C33
\* C33: after a platform setup the list of detected zones starts with
\* main, has no zone twice and only main, zone2 and zone3; zone2 (zone3)
\* is in it exactly when its power query answered (it neither raised nor
\* gave None), whatever the other query did; and the entry has an entity
\* for every detected zone, the main zone among them.
C33_MainZoneAlwaysDetected ==
    (call.op = "async_setup_entry" /\ call.returned = "True") =>
        /\ Len(call.zones) >= 1
        /\ call.zones[1] = "main"
        /\ \A i \in DOMAIN call.zones : \A j \in DOMAIN call.zones :
               call.zones[i] = call.zones[j] => i = j
        /\ \A i \in DOMAIN call.zones :
               call.zones[i] \in {"main", "zone2", "zone3"}
        /\ InSeq("zone2", call.zones) <=> call.zone_queries[1] = "answer"
        /\ InSeq("zone3", call.zones) <=> call.zone_queries[2] = "answer"
        /\ \A i \in DOMAIN call.zones :
               <<call.entry, call.zones[i]>> \in entities
        /\ <<call.entry, "main">> \in entities

\* C33, its case: the zone 2 query raised and the zone 3 query answered,
\* and the setup detected main and zone3.
C33_Witness ==
    /\ call.op = "async_setup_entry"
    /\ call.returned = "True"
    /\ call.zone_queries = <<"raise", "answer">>
    /\ call.zones = <<"main", "zone3">>
    /\ <<call.entry, "zone3">> \in entities

====
